---------------------------- MODULE Spec2Model ----------------------------
(***************************************************************************)
(* A model of tomplot's LFRic field, coordinate, height and vertical-slice  *)
(* extraction (src/tomplot/data_extraction.py), of the checks, time       *)
(* variable, field read and interpolation of extract_lfric_2D_data         *)
(* (src/tomplot/extract_lfric_field_data.py) and of the conversion of logs *)
(* by convert_global_output (src/tomplot/global_output_converter.py).      *)
(*                                                                         *)
(* Conventions                                                             *)
(*  - a Python str is a sequence of one-character strings, so that slicing *)
(*    (name[1:]) and concatenation (name + '_x') are computed, not assumed; *)
(*  - a numeric array is a nested sequence (row-major); Python indices are *)
(*    0-based and are kept 0-based in every argument, the conversion to    *)
(*    the 1-based sequences happens in GetItem;                            *)
(*  - a call either returns (kind = "return") or raises (kind = the name   *)
(*    of the Python exception class).                                      *)
(***************************************************************************)
EXTENDS Integers, Sequences, FiniteSets, TLC

VARIABLES
    field_dataset,   \* the netCDF dataset holding the field and its coordinates
    height_dataset,  \* the netCDF dataset holding height_w3 / height_wth
    cube,            \* what cubed_sphere.lonlat_to_alphabeta gives for the mesh
    call,            \* the routine called last, with its arguments
    ret,             \* what that call returned or raised
    events,          \* what that call did, in order: warnings, reads, helper calls
    logs,            \* the output.log of every source directory of the converter
    output_file,     \* global_output.nc in the target directory
    data_frames      \* the tables the converter had built when its call ended

vars == <<field_dataset, height_dataset, cube, call, ret, events,
          logs, output_file, data_frames>>

(***************************************************************************)
(* Bounds of the model: sizes of the time, level and cell dimensions.      *)
(***************************************************************************)
NT == 2
NL == 2
NC == 3

(***************************************************************************)
(* Python values                                                           *)
(***************************************************************************)
None == [tag |-> "None"]
PyInt(i) == [tag |-> "int", i |-> i]
\* slice(None, None): the full extent of a dimension
SliceAll == [tag |-> "slice"]

Return(v) == [kind |-> "return", value |-> v]
Raise(cls, m) == [kind |-> cls, msg |-> m]
NoMsg == [text |-> "", field |-> <<>>, count |-> -1]
IsError(r) == r.kind # "return"

\* Strings used as names of dimensions and variables.
s_time == <<"t", "i", "m", "e">>
s_half_levels == <<"h", "a", "l", "f", "_", "l", "e", "v", "e", "l", "s">>
s_full_levels == <<"f", "u", "l", "l", "_", "l", "e", "v", "e", "l", "s">>
s_nMesh2d_face == <<"n", "M", "e", "s", "h", "2", "d", "_", "f", "a", "c", "e">>
s_nMesh2d_edge == <<"n", "M", "e", "s", "h", "2", "d", "_", "e", "d", "g", "e">>
s_extra == <<"n", "b", "n", "d", "s">>
s_x == <<"_", "x">>
s_y == <<"_", "y">>
s_Mesh2d_face_x == <<"M", "e", "s", "h", "2", "d", "_", "f", "a", "c", "e", "_", "x">>
s_Mesh2d_face_y == <<"M", "e", "s", "h", "2", "d", "_", "f", "a", "c", "e", "_", "y">>
s_Mesh2d_edge_x == <<"M", "e", "s", "h", "2", "d", "_", "e", "d", "g", "e", "_", "x">>
s_Mesh2d_edge_y == <<"M", "e", "s", "h", "2", "d", "_", "e", "d", "g", "e", "_", "y">>
s_field == <<"r", "h", "o">>

(***************************************************************************)
(* Arrays                                                                  *)
(***************************************************************************)
\* The size of a dimension, by its name.
DimSize(d) ==
    IF d = s_time THEN NT
    ELSE IF d \in {s_half_levels, s_full_levels} THEN NL
    ELSE IF d \in {s_nMesh2d_face, s_nMesh2d_edge} THEN NC
    ELSE 1

ShapeOf(dims) == [k \in 1..Len(dims) |-> DimSize(dims[k])]

\* An array of the given shape whose value at the (1-based) index <<i1,..,ik>>
\* is base*10^k + the decimal number i1 i2 .. ik: every cell has its own value.
RECURSIVE MkArr(_, _)
MkArr(shape, acc) ==
    IF shape = <<>> THEN acc
    ELSE [i \in 1..Head(shape) |-> MkArr(Tail(shape), acc * 10 + i)]

\* A netCDF variable: its dimension names and its data.
Variable(dims, base) ==
    [dimensions |-> dims, shape |-> ShapeOf(dims), data |-> MkArr(ShapeOf(dims), base)]

\* Whether an index tuple (integers and full slices) is inside the shape.
\* A negative integer counts from the end of its dimension.
IndexInRange(shape, idx) ==
    \A k \in 1..Len(idx) :
        idx[k].tag = "int" => (idx[k].i >= -shape[k] /\ idx[k].i < shape[k])

\* arr[idx]: an integer selects one entry of a dimension and drops it, a full
\* slice keeps the dimension.
RECURSIVE GetItem(_, _)
GetItem(arr, idx) ==
    IF idx = <<>> THEN arr
    ELSE IF Head(idx).tag = "int"
         THEN GetItem(arr[(IF Head(idx).i < 0 THEN Head(idx).i + Len(arr)
                           ELSE Head(idx).i) + 1],
                      Tail(idx))
         ELSE [i \in 1..Len(arr) |-> GetItem(arr[i], Tail(idx))]

\* The number of dimensions left after indexing: each integer drops one.
ResultNdim(shape, idx) ==
    Len(shape) - Cardinality({k \in 1..Len(idx) : idx[k].tag = "int"})

\* variable[idx] on a netCDF variable: IndexError outside the shape.
VarGetItem(var, idx) ==
    IF IndexInRange(var.shape, idx)
    THEN Return([ndim |-> ResultNdim(var.shape, idx), a |-> GetItem(var.data, idx)])
    ELSE Raise("IndexError", NoMsg)

(***************************************************************************)
(* extract_lfric_field                                                     *)
(***************************************************************************)
\* Mutation: the two 2-dimension branches tested in the other order, so that a
\* (time, cell) field is indexed by level.
extract_lfric_field_levelfirst(dataset, field_name, time_idx, level) ==
    LET t == IF time_idx = None THEN SliceAll ELSE time_idx
        l == IF level = None THEN SliceAll ELSE level
        var == dataset.variables[field_name]
        n == Len(var.dimensions)
    IN  IF n = 3 THEN VarGetItem(var, <<t, l, SliceAll>>)
        ELSE IF n = 2 THEN VarGetItem(var, <<l, SliceAll>>)
        ELSE IF n = 1 THEN VarGetItem(var, <<SliceAll>>)
        ELSE Raise("AttributeError",
                   [text |-> "'tuple' object has no attribute 'shape'",
                    field |-> <<>>, count |-> -1])

extract_lfric_field(dataset, field_name, time_idx, level) ==
    LET t == IF time_idx = None THEN SliceAll ELSE time_idx
        l == IF level = None THEN SliceAll ELSE level
        var == dataset.variables[field_name]
        n == Len(var.dimensions)
    IN  IF n = 3 THEN VarGetItem(var, <<t, l, SliceAll>>)
        ELSE IF n = 2 /\ var.dimensions[1] = s_time
             THEN VarGetItem(var, <<t, SliceAll>>)
        ELSE IF n = 2 THEN VarGetItem(var, <<l, SliceAll>>)
        ELSE IF n = 1 THEN VarGetItem(var, <<SliceAll>>)
        \* the message is built from len(dimensions.shape); dimensions is a
        \* tuple, which has no attribute shape, so building it raises
        ELSE Raise("AttributeError",
                   [text |-> "'tuple' object has no attribute 'shape'",
                    field |-> <<>>, count |-> -1])

(***************************************************************************)
(* extract_lfric_coords                                                    *)
(***************************************************************************)
\* dataset[name]: the variable of that name, IndexError when there is none.
Lookup(dataset, name) ==
    IF name \in DOMAIN dataset.variables
    THEN Return(dataset.variables[name])
    ELSE Raise("IndexError", [text |-> "not found", field |-> name, count |-> -1])

\* name[1:]
DropFirst(name) == SubSeq(name, 2, Len(name))

\* Mutation: the last character is dropped instead of the first.
coords_names_droplast(root_coords_name) ==
    [X |-> SubSeq(root_coords_name, 1, Len(root_coords_name) - 1) \o s_x,
     Y |-> SubSeq(root_coords_name, 1, Len(root_coords_name) - 1) \o s_y]

\* The names of the coordinate variables of a mesh dimension.
coords_names(root_coords_name) ==
    [X |-> DropFirst(root_coords_name) \o s_x,
     Y |-> DropFirst(root_coords_name) \o s_y]

\* Returns [ret, events]: events are the dataset lookups made, in order.
extract_lfric_coords(dataset, field_name) ==
    LET dims == dataset.variables[field_name].dimensions
    IN  IF Len(dims) = 0
        THEN [ret |-> Raise("IndexError",
                            [text |-> "tuple index out of range",
                             field |-> <<>>, count |-> -1]),
              events |-> <<>>]
        ELSE LET names == coords_names(dims[Len(dims)])
                 vx == Lookup(dataset, names.X)
                 vy == Lookup(dataset, names.Y)
             IN  IF IsError(vx)
                 THEN [ret |-> vx, events |-> <<[ev |-> "lookup", name |-> names.X]>>]
                 ELSE IF IsError(vy)
                 THEN [ret |-> vy,
                       events |-> <<[ev |-> "lookup", name |-> names.X],
                                    [ev |-> "lookup", name |-> names.Y]>>]
                 ELSE [ret |-> Return([X |-> vx.value.data, Y |-> vy.value.data]),
                       events |-> <<[ev |-> "lookup", name |-> names.X],
                                    [ev |-> "lookup", name |-> names.Y]>>]

(***************************************************************************)
(* extract_lfric_heights                                                   *)
(***************************************************************************)
s_height_w3 == <<"h", "e", "i", "g", "h", "t", "_", "w", "3">>
s_height_wth == <<"h", "e", "i", "g", "h", "t", "_", "w", "t", "h">>

\* Which height variable a field belongs to, from the field's dimensions
\* (Python's dimensions[1] and dimensions[2] are dims[2] and dims[3] here).
\* Reading an entry the tuple does not have is an IndexError; `and` reads
\* dimensions[2] only when the test of dimensions[1] succeeded.
height_name(dims, field_name) ==
    IF Len(dims) < 2
    THEN Raise("IndexError", [text |-> "tuple index out of range",
                              field |-> <<>>, count |-> -1])
    ELSE IF dims[2] \in {s_half_levels, s_full_levels} /\ Len(dims) < 3
    THEN Raise("IndexError", [text |-> "tuple index out of range",
                              field |-> <<>>, count |-> -1])
    ELSE IF dims[2] = s_half_levels /\ dims[3] = s_nMesh2d_face
    THEN Return(s_height_w3)
    ELSE IF dims[2] = s_full_levels /\ dims[3] = s_nMesh2d_face
    THEN Return(s_height_wth)
    ELSE Raise("NotImplementedError",
               [text |-> "Dimensions for {} are not implemented so cannot work out height field",
                field |-> field_name, count |-> -1])

\* Mutation: a time-varying height is read at its last time sample.
height_index_lasttime(hvar, level) ==
    IF Len(hvar.dimensions) = 2 THEN Return(<<level, SliceAll>>)
    ELSE IF Len(hvar.dimensions) = 3
    THEN Return(<<PyInt(hvar.shape[1] - 1), level, SliceAll>>)
    ELSE Raise("RuntimeError",
               [text |-> "Trying to extract {} field, but the array is not 2D or 3D, so cannot proceed",
                field |-> <<>>, count |-> -1])

\* The index tuple the height variable is read with.
height_index(hvar, level) ==
    IF Len(hvar.dimensions) = 2 THEN Return(<<level, SliceAll>>)
    ELSE IF Len(hvar.dimensions) = 3 THEN Return(<<PyInt(0), level, SliceAll>>)
    ELSE Raise("RuntimeError",
               [text |-> "Trying to extract {} field, but the array is not 2D or 3D, so cannot proceed",
                field |-> <<>>, count |-> -1])

\* Returns [ret, events]: events are the dataset lookups made.
extract_lfric_heights(hdataset, fdataset, field_name, level) ==
    LET name == height_name(fdataset.variables[field_name].dimensions, field_name)
    IN  IF IsError(name) THEN [ret |-> name, events |-> <<>>]
        ELSE LET l == IF level = None THEN SliceAll ELSE level
                 hvar == Lookup(hdataset, name.value)
                 idx == height_index(hvar.value, l)
             IN  [ret |-> IF IsError(hvar) THEN hvar
                          ELSE IF IsError(idx) THEN idx
                          ELSE VarGetItem(hvar.value, idx.value),
                  events |-> <<[ev |-> "lookup", name |-> name.value]>>]

(***************************************************************************)
(* extract_lfric_vertical_slice                                            *)
(***************************************************************************)
\* cubed_sphere.lonlat_to_alphabeta: the alpha and beta coordinates and the
\* panel id of every mesh point. The transform is an external collaborator;
\* its output for the dataset's mesh is the table held in `cube`.
lonlat_to_alphabeta(coords_X, coords_Y) ==
    [X |-> cube.alpha, Y |-> cube.beta, panel_ids |-> cube.panel]

Abs(x) == IF x < 0 THEN -x ELSE x

SliceCoords == {"x", "y", "lon", "lat", "alpha", "beta"}
PanelCoords == {"alpha", "beta"}

\* The column of the table the slice is taken along, and the other one.
local_slice_along(slice_along) ==
    IF slice_along \in {"y", "lat", "beta"} THEN "Y" ELSE "X"
local_X_coord(slice_along) ==
    IF local_slice_along(slice_along) = "X" THEN "Y" ELSE "X"

\* The levels looped over and their number, when levels is None.
default_levels(var) ==
    IF Len(var.dimensions) = 2
    THEN Return([k \in 1..var.shape[1] |-> k - 1])
    ELSE IF Len(var.dimensions) = 3
    THEN Return([k \in 1..var.shape[2] |-> k - 1])
    ELSE Raise("RuntimeError",
               [text |-> "extract_lfric_vertical_slice: cannot work withdata of this shape",
                field |-> <<>>, count |-> -1])

\* pd.DataFrame(data_dict): every column is one-dimensional and all columns
\* have the same length, otherwise pandas raises ValueError. A column that is
\* not in the dictionary is the empty sequence here.
DataFrame(field_col, X, Y, has_height, height_col, has_panel, panel_ids) ==
    IF field_col.ndim # 1 \/ (has_height /\ height_col.ndim # 1)
    THEN Raise("ValueError", [text |-> "Per-column arrays must each be 1-dimensional",
                              field |-> <<>>, count |-> -1])
    ELSE IF \/ Len(field_col.a) # Len(X)
            \/ Len(Y) # Len(X)
            \/ (has_height /\ Len(height_col.a) # Len(X))
            \/ (has_panel /\ Len(panel_ids) # Len(X))
    THEN Raise("ValueError", [text |-> "All arrays must be of the same length",
                              field |-> <<>>, count |-> -1])
    ELSE Return([field_data |-> field_col.a, X |-> X, Y |-> Y,
                 height |-> IF has_height THEN height_col.a ELSE <<>>,
                 panel |-> IF has_panel THEN panel_ids ELSE <<>>])

\* The rows of a table at the given row numbers.
Rows(df, keep) ==
    [field_data |-> [r \in 1..Len(keep) |-> df.field_data[keep[r]]],
     X |-> [r \in 1..Len(keep) |-> df.X[keep[r]]],
     Y |-> [r \in 1..Len(keep) |-> df.Y[keep[r]]],
     height |-> IF df.height = <<>> THEN <<>>
                ELSE [r \in 1..Len(keep) |-> df.height[keep[r]]],
     panel |-> IF df.panel = <<>> THEN <<>>
               ELSE [r \in 1..Len(keep) |-> df.panel[keep[r]]]]

\* Mutation: the window is closed (<=) instead of open (<).
slice_filter_closed(df, slice_along, slice_at, panel, tolerance) ==
    LET col == IF local_slice_along(slice_along) = "X" THEN df.X ELSE df.Y
        InSlice(i) ==
            /\ Abs(col[i] - slice_at) <= tolerance
            /\ (slice_along \in PanelCoords => df.panel[i] = panel.i)
    IN  Rows(df, SelectSeq([i \in 1..Len(col) |-> i], InSlice))

\* Mutation: the window widens with the level the rows belong to (the level is
\* the tens digit of the field's values), so the rows kept depend on the level.
slice_filter_by_level(df, slice_along, slice_at, panel, tolerance) ==
    LET col == IF local_slice_along(slice_along) = "X" THEN df.X ELSE df.Y
        InSlice(i) ==
            /\ Abs(col[i] - slice_at) < tolerance + ((df.field_data[i] \div 10) % 10) - 1
            /\ (slice_along \in PanelCoords => df.panel[i] = panel.i)
    IN  Rows(df, SelectSeq([i \in 1..Len(col) |-> i], InSlice))

\* slice_df: the rows within tolerance of slice_at along the slice direction
\* and, for alpha and beta, on the requested panel; the rows keep their order.
slice_filter(df, slice_along, slice_at, panel, tolerance) ==
    LET col == IF local_slice_along(slice_along) = "X" THEN df.X ELSE df.Y
        InSlice(i) ==
            /\ Abs(col[i] - slice_at) < tolerance
            /\ (slice_along \in PanelCoords => df.panel[i] = panel.i)
    IN  Rows(df, SelectSeq([i \in 1..Len(col) |-> i], InSlice))

Warning(slice_along, slice_at) ==
    [ev |-> "warning",
     text |-> "extract_lfric_vertical_slice: No data points found at {} = {}. Finding nearest points instead. This implies that you will need toregrid",
     slice_along |-> slice_along, slice_at |-> slice_at]

\* Mutation: after the warning the routine returns instead of raising.
no_match_warn_only(slice_along, slice_at) ==
    [ret |-> Return(<<>>), events |-> <<Warning(slice_along, slice_at)>>]

\* What an empty slice_df leads to: the warning, then the exception.
no_match(slice_along, slice_at) ==
    [ret |-> Raise("NotImplementedError", NoMsg),
     events |-> <<Warning(slice_along, slice_at)>>]

\* np.zeros((len_data, num_levels))
Zeros(len_data, num_levels) ==
    [r \in 1..len_data |-> [k \in 1..num_levels |-> 0]]

\* arr[:, lev_idx] = values (lev_idx 0-based): values has the length of the
\* column, or has length 1 and is broadcast; any other length is a ValueError.
SetColumn(arr, lev_idx, values) ==
    IF Len(values) = Len(arr)
    THEN Return([r \in 1..Len(arr) |->
                    [arr[r] EXCEPT ![lev_idx + 1] = values[r]]])
    ELSE IF Len(values) = 1
    THEN Return([r \in 1..Len(arr) |->
                    [arr[r] EXCEPT ![lev_idx + 1] = values[1]]])
    ELSE Raise("ValueError", [text |-> "could not broadcast input array",
                              field |-> <<>>, count |-> -1])

\* The output arrays after the rows of one level are written into them; on
\* the first level the arrays are created from that level's number of rows.
populate(out, lev_idx, num_levels, level, slice_df, slice_along, has_height) ==
    LET len_data == Len(slice_df.field_data)
        cur == IF lev_idx = 0
               THEN [field_data |-> Zeros(len_data, num_levels),
                     coords_X |-> Zeros(len_data, num_levels),
                     coords_Y |-> Zeros(len_data, num_levels),
                     coords_Z |-> Zeros(len_data, num_levels)]
               ELSE out
        other == IF local_X_coord(slice_along) = "X" THEN slice_df.X ELSE slice_df.Y
        along == IF local_slice_along(slice_along) = "X" THEN slice_df.X ELSE slice_df.Y
        f == SetColumn(cur.field_data, lev_idx, slice_df.field_data)
        x == SetColumn(cur.coords_X, lev_idx, other)
        y == SetColumn(cur.coords_Y, lev_idx, along)
        z == SetColumn(cur.coords_Z, lev_idx,
                       IF has_height THEN slice_df.height ELSE <<level>>)
    IN  IF IsError(f) THEN f
        ELSE IF IsError(x) THEN x
        ELSE IF IsError(y) THEN y
        ELSE IF IsError(z) THEN z
        ELSE Return([field_data |-> f.value, coords_X |-> x.value,
                     coords_Y |-> y.value, coords_Z |-> z.value])

\* The loop over the levels, from position k (1-based) of levels on; `out` are
\* the output arrays so far (unset before the first level).
RECURSIVE slice_loop(_, _, _, _, _, _, _, _)
slice_loop(fdataset, hdataset, a, coords, panel_ids, levels, k, out) ==
    IF k > Len(levels)
    THEN [ret |-> IF Len(levels) = 0
                  THEN Raise("UnboundLocalError",
                             [text |-> "local variable 'field_data' referenced before assignment",
                              field |-> <<>>, count |-> -1])
                  ELSE Return(out),
          events |-> <<>>]
    ELSE
    LET level == levels[k]
        has_height == hdataset # None
        has_panel == a.slice_along \in PanelCoords
        field_data_level == extract_lfric_field(fdataset, a.field_name,
                                                a.time_idx, PyInt(level))
        height_data_level == extract_lfric_heights(hdataset, fdataset,
                                                   a.field_name, PyInt(level))
    IN  IF IsError(field_data_level)
        THEN [ret |-> field_data_level, events |-> <<>>]
        ELSE IF has_height /\ IsError(height_data_level.ret)
        THEN [ret |-> height_data_level.ret, events |-> <<>>]
        ELSE
        LET df == DataFrame(field_data_level.value, coords.X, coords.Y,
                            has_height,
                            IF has_height THEN height_data_level.ret.value ELSE <<>>,
                            has_panel, panel_ids)
        IN  IF IsError(df) THEN [ret |-> df, events |-> <<>>]
            ELSE
            LET slice_df == slice_filter(df.value, a.slice_along, a.slice_at,
                                         a.panel, a.tolerance)
            IN  IF Len(slice_df.field_data) = 0
                THEN no_match(a.slice_along, a.slice_at)
                ELSE
                LET next == populate(out, k - 1, Len(levels), level, slice_df,
                                     a.slice_along, has_height)
                IN  IF IsError(next) THEN [ret |-> next, events |-> <<>>]
                    ELSE slice_loop(fdataset, hdataset, a, coords, panel_ids,
                                    levels, k + 1, next.value)

\* Returns [ret, events]; a holds the arguments field_name, time_idx,
\* slice_along, slice_at, levels, panel and tolerance; hdataset is the
\* height_dataset argument (None when model levels are the vertical axis).
extract_lfric_vertical_slice(fdataset, hdataset, a) ==
    IF a.slice_along \notin SliceCoords
    THEN [ret |-> Raise("AssertionError",
                        [text |-> "slice_along variable must correspond to a coordinate",
                         field |-> <<>>, count |-> -1]),
          events |-> <<>>]
    ELSE IF a.slice_along \in PanelCoords /\ a.panel = None
    THEN [ret |-> Raise("AssertionError",
                        [text |-> "if slicing along alpha or beta coordinates, panel argument must be provided",
                         field |-> <<>>, count |-> -1]),
          events |-> <<>>]
    ELSE
    LET levels == IF a.levels = None
                  THEN default_levels(fdataset.variables[a.field_name])
                  ELSE Return(a.levels.v)
    IN  IF IsError(levels) THEN [ret |-> levels, events |-> <<>>]
        ELSE
        LET c == extract_lfric_coords(fdataset, a.field_name)
        IN  IF IsError(c.ret) THEN c
            ELSE
            LET ab == lonlat_to_alphabeta(c.ret.value.X, c.ret.value.Y)
                coords == IF a.slice_along \in PanelCoords
                          THEN [X |-> ab.X, Y |-> ab.Y]
                          ELSE c.ret.value
                panel_ids == IF a.slice_along \in PanelCoords
                             THEN ab.panel_ids ELSE <<>>
                r == slice_loop(fdataset, hdataset, a, coords, panel_ids,
                                levels.value, 1, <<>>)
            IN  [ret |-> r.ret, events |-> c.events \o r.events]

(***************************************************************************)
(* Datasets                                                                *)
(***************************************************************************)
\* A coordinate variable on a mesh dimension, with the given values.
CoordVariable(dim, values) ==
    [dimensions |-> <<dim>>, shape |-> <<Len(values)>>, data |-> values]

\* A field dataset: the field, and those of the x and y coordinate variables
\* of the face and edge meshes that `present` names.
FieldDataset(dims, X, Y, present) ==
    [variables |->
        [n \in {s_field} \cup present |->
            IF n = s_field THEN Variable(dims, 1)
            ELSE IF n = s_Mesh2d_face_x THEN CoordVariable(s_nMesh2d_face, X)
            ELSE IF n = s_Mesh2d_face_y THEN CoordVariable(s_nMesh2d_face, Y)
            ELSE IF n = s_Mesh2d_edge_x THEN CoordVariable(s_nMesh2d_edge, Y)
            ELSE CoordVariable(s_nMesh2d_edge, X)]]

\* A height dataset whose height_w3 and height_wth have the given dimensions.
HeightDataset(hdims) ==
    [variables |->
        [n \in {s_height_w3, s_height_wth} |->
            IF n = s_height_w3 THEN Variable(hdims, 7) ELSE Variable(hdims, 8)]]

\* The dimensions a field may be declared with: the four recognised shapes,
\* and shapes with none or four dimensions or on other meshes.
FieldDims ==
    { <<>>,
      <<s_nMesh2d_face>>, <<s_nMesh2d_edge>>,
      <<s_time, s_nMesh2d_face>>, <<s_half_levels, s_nMesh2d_face>>,
      <<s_full_levels, s_nMesh2d_face>>, <<s_time, s_half_levels>>,
      <<s_time, s_full_levels>>, <<s_half_levels, s_nMesh2d_edge>>,
      <<s_time, s_half_levels, s_nMesh2d_face>>,
      <<s_time, s_full_levels, s_nMesh2d_face>>,
      <<s_time, s_half_levels, s_nMesh2d_edge>>,
      <<s_time, s_nMesh2d_face, s_half_levels>>,
      <<s_time, s_half_levels, s_nMesh2d_face, s_extra>> }

\* The dimensions a height variable may be declared with.
HeightDims ==
    { <<s_nMesh2d_face>>,
      <<s_half_levels, s_nMesh2d_face>>,
      <<s_time, s_half_levels, s_nMesh2d_face>>,
      <<s_time, s_half_levels, s_nMesh2d_face, s_extra>> }

\* Which coordinate variables a dataset holds.
CoordPresence ==
    { {s_Mesh2d_face_x, s_Mesh2d_face_y, s_Mesh2d_edge_x, s_Mesh2d_edge_y},
      {s_Mesh2d_face_x, s_Mesh2d_face_y},
      {s_Mesh2d_face_x},
      {} }

\* Coordinates of the mesh points: x from a small set of integers, y the same
\* values in the opposite order.
CoordVals == 0..1
Meshes == { [X |-> x, Y |-> [i \in 1..NC |-> x[NC + 1 - i]]] : x \in [1..NC -> CoordVals] }
DefaultMesh == [X |-> [i \in 1..NC |-> i % 2], Y |-> [i \in 1..NC |-> (i + 1) % 2]]

\* The table of the cubed-sphere transform for a mesh: points on two panels.
Cube(mesh) ==
    [alpha |-> mesh.Y, beta |-> mesh.X, panel |-> [i \in 1..NC |-> i % 2]]

\* The selectors a caller may pass: None and every index of the dimension,
\* and one index past its end.
Selectors(n) == {None} \cup {PyInt(i) : i \in (-(n + 1))..n}

\* A run is one call on one dataset: no routine has been called yet.
NoCall == [fn |-> "none"]

(***************************************************************************)
(* Spec: calls of extract_lfric_field, extract_lfric_coords and            *)
(* extract_lfric_heights on one dataset.                                   *)
(***************************************************************************)
Init ==
    /\ \E dims \in FieldDims, present \in CoordPresence :
          field_dataset = FieldDataset(dims, DefaultMesh.X, DefaultMesh.Y, present)
    /\ \E hdims \in HeightDims : height_dataset = HeightDataset(hdims)
    /\ cube = Cube(DefaultMesh)
    /\ call = NoCall
    /\ ret = Return(<<>>)
    /\ events = <<>>
    /\ logs = None
    /\ output_file = None
    /\ data_frames = <<>>

CallField ==
    \E time_idx \in Selectors(NT), level \in Selectors(NL) :
        /\ call = NoCall
        /\ call' = [fn |-> "extract_lfric_field", field_name |-> s_field,
                    time_idx |-> time_idx, level |-> level]
        /\ ret' = extract_lfric_field(field_dataset, s_field, time_idx, level)
        /\ events' = <<>>
        /\ UNCHANGED <<field_dataset, height_dataset, cube, logs, output_file, data_frames>>

CallCoords ==
    LET r == extract_lfric_coords(field_dataset, s_field)
    IN  /\ call = NoCall
        /\ call' = [fn |-> "extract_lfric_coords", field_name |-> s_field]
        /\ ret' = r.ret
        /\ events' = r.events
        /\ UNCHANGED <<field_dataset, height_dataset, cube, logs, output_file, data_frames>>

CallHeights ==
    \E level \in Selectors(NL) :
        /\ call = NoCall
        /\ call' = [fn |-> "extract_lfric_heights", field_name |-> s_field,
                    level |-> level]
        /\ LET r == extract_lfric_heights(height_dataset, field_dataset, s_field, level)
           IN  ret' = r.ret /\ events' = r.events
        /\ UNCHANGED <<field_dataset, height_dataset, cube, logs, output_file, data_frames>>

Next == CallField \/ CallCoords \/ CallHeights

Spec == Init /\ [][Next]_vars

(***************************************************************************)
(* SpecSlice: calls of extract_lfric_vertical_slice (and of                *)
(* extract_lfric_heights, which it uses) on one dataset.                   *)
(***************************************************************************)
SliceFieldDims ==
    { <<s_nMesh2d_face>>,
      <<s_time, s_nMesh2d_face>>, <<s_half_levels, s_nMesh2d_face>>,
      <<s_time, s_half_levels, s_nMesh2d_face>>,
      <<s_time, s_full_levels, s_nMesh2d_face>>,
      <<s_time, s_half_levels, s_nMesh2d_edge>>,
      <<s_time, s_half_levels, s_nMesh2d_face, s_extra>> }

SliceHeightDims ==
    { <<s_nMesh2d_face>>,
      <<s_half_levels, s_nMesh2d_face>>,
      <<s_time, s_half_levels, s_nMesh2d_face>> }

InitSlice ==
    /\ \E dims \in SliceFieldDims, mesh \in Meshes :
          /\ field_dataset = FieldDataset(dims, mesh.X, mesh.Y,
                                          {s_Mesh2d_face_x, s_Mesh2d_face_y})
          /\ cube = Cube(mesh)
    /\ height_dataset \in {None} \cup {HeightDataset(hdims) : hdims \in SliceHeightDims}
    /\ call = NoCall
    /\ ret = Return(<<>>)
    /\ events = <<>>
    /\ logs = None
    /\ output_file = None
    /\ data_frames = <<>>

\* The values of slice_along a caller may pass, one of them not a coordinate.
SliceAlongs == SliceCoords \cup {"z"}
SliceAts == 0..1
Tolerances == 1..2
Panels == 0..1
\* The levels arguments: None, no level, and the top and bottom levels.
LevelLists == {None, [tag |-> "list", v |-> <<>>], [tag |-> "list", v |-> <<NL - 1, 0>>]}
PanelArgs(slice_along) ==
    IF slice_along \in PanelCoords THEN {None} \cup {PyInt(p) : p \in Panels}
    ELSE {None}

CallSlice ==
    \E time_idx \in {None, PyInt(0), PyInt(NT - 1), PyInt(-1)}, slice_along \in SliceAlongs,
       slice_at \in SliceAts, tolerance \in Tolerances, levels \in LevelLists :
       \E panel \in PanelArgs(slice_along) :
        LET a == [fn |-> "extract_lfric_vertical_slice", field_name |-> s_field,
                  time_idx |-> time_idx, slice_along |-> slice_along,
                  slice_at |-> slice_at, levels |-> levels, panel |-> panel,
                  tolerance |-> tolerance]
            r == extract_lfric_vertical_slice(field_dataset, height_dataset, a)
        IN  /\ call = NoCall
            /\ call' = a
            /\ ret' = r.ret
            /\ events' = r.events
            /\ UNCHANGED <<field_dataset, height_dataset, cube, logs, output_file, data_frames>>

CallSliceHeights ==
    /\ height_dataset # None
    /\ CallHeights

NextSlice == CallSlice \/ CallSliceHeights

SpecSlice == InitSlice /\ [][NextSlice]_vars

(***************************************************************************)
(* extract_lfric_2D_data                                                   *)
(***************************************************************************)
PyStr(str) == [tag |-> "str", s |-> str]
s_time_instant == <<"t", "i", "m", "e", "_", "i", "n", "s", "t", "a", "n", "t">>

\* Mutation: the check of slice_name is left out.
slice_name_ok_unchecked(slice_name) == TRUE

\* slice_name in ['xy', 'yz', 'xz', None]
slice_name_ok(slice_name) ==
    slice_name \in {PyStr("xy"), PyStr("yz"), PyStr("xz"), None}

\* data_file.variables[name]: KeyError when the dictionary has no such key.
DictGet(data_file, name) ==
    IF name \in DOMAIN data_file.variables
    THEN Return(data_file.variables[name])
    ELSE Raise("KeyError", [text |-> "", field |-> name, count |-> -1])

\* Mutation: 'time_instant' is tried before 'time'.
time_variable_instant_first(data_file, time_idx) ==
    LET v1 == DictGet(data_file, s_time_instant)
        v2 == DictGet(data_file, s_time)
        Read(v) == LET x == VarGetItem(v.value, <<time_idx>>)
                   IN  IF IsError(x) THEN x
                       ELSE Return([time |-> x.value.a, lfric_initial |-> FALSE])
    IN  IF ~IsError(v1)
        THEN [ret |-> Read(v1), events |-> <<[ev |-> "lookup", name |-> s_time_instant]>>]
        ELSE IF ~IsError(v2)
        THEN [ret |-> Read(v2),
              events |-> <<[ev |-> "lookup", name |-> s_time_instant],
                           [ev |-> "lookup", name |-> s_time]>>]
        ELSE [ret |-> Return([time |-> 0, lfric_initial |-> TRUE]),
              events |-> <<[ev |-> "lookup", name |-> s_time_instant],
                           [ev |-> "lookup", name |-> s_time]>>]

\* The time of the data and whether the file is an lfric_initial file:
\* 'time' is tried first, then 'time_instant'; only a KeyError is caught.
\* Returns [ret, events], ret.value = [time, lfric_initial].
time_variable(data_file, time_idx) ==
    LET v1 == DictGet(data_file, s_time)
        v2 == DictGet(data_file, s_time_instant)
        Read(v) == LET x == VarGetItem(v.value, <<time_idx>>)
                   IN  IF IsError(x) THEN x
                       ELSE Return([time |-> x.value.a, lfric_initial |-> FALSE])
    IN  IF ~IsError(v1)
        THEN [ret |-> Read(v1), events |-> <<[ev |-> "lookup", name |-> s_time]>>]
        ELSE IF ~IsError(v2)
        THEN [ret |-> Read(v2),
              events |-> <<[ev |-> "lookup", name |-> s_time],
                           [ev |-> "lookup", name |-> s_time_instant]>>]
        ELSE [ret |-> Return([time |-> 0, lfric_initial |-> TRUE]),
              events |-> <<[ev |-> "lookup", name |-> s_time],
                           [ev |-> "lookup", name |-> s_time_instant]>>]

\* vert_placement and hori_placement from the field's dimension names; the
\* horizontal one loses its leading "n". Reading a dimension the tuple does
\* not have is an IndexError.
placements(dims, lfric_initial) ==
    LET first == IF lfric_initial THEN 1 ELSE 2
    IN  IF Len(dims) = first
        THEN Return([vert_placement |-> None,
                     hori_placement |-> DropFirst(dims[first])])
        ELSE IF Len(dims) < first + 1
        THEN Raise("IndexError", [text |-> "tuple index out of range",
                                  field |-> <<>>, count |-> -1])
        ELSE Return([vert_placement |-> PyStr(dims[first]),
                     hori_placement |-> DropFirst(dims[first + 1])])

\* The index the whole field is read with.
field_full_index(lfric_initial, vert_placement, time_idx) ==
    IF lfric_initial
    THEN (IF vert_placement = None THEN <<SliceAll>> ELSE <<SliceAll, SliceAll>>)
    ELSE (IF vert_placement = None THEN <<time_idx, SliceAll>>
          ELSE <<time_idx, SliceAll, SliceAll>>)

(***************************************************************************)
(* Floating-point values of the regridded field: exact fractions in lowest *)
(* terms, and NaN.                                                         *)
(***************************************************************************)
RECURSIVE GCD(_, _)
GCD(a, b) == IF b = 0 THEN a ELSE GCD(b, a % b)

NaN == [num |-> 0, den |-> 0]

\* n / d, d # 0, in lowest terms with a positive denominator.
Frac(n, d) ==
    LET g == GCD(Abs(n), Abs(d))
        s == IF d < 0 THEN -1 ELSE 1
    IN  [num |-> s * (n \div g), den |-> s * (d \div g)]

\* An integer array of nd dimensions as floats, and NaN / zeros of its shape.
RECURSIVE AsFloat(_, _)
AsFloat(v, nd) ==
    IF nd = 0 THEN Frac(v, 1) ELSE [k \in 1..Len(v) |-> AsFloat(v[k], nd - 1)]

RECURSIVE NaNLike(_, _)
NaNLike(v, nd) ==
    IF nd = 0 THEN NaN ELSE [k \in 1..Len(v) |-> NaNLike(v[k], nd - 1)]

RECURSIVE zeros_like(_, _)
zeros_like(v, nd) ==
    IF nd = 0 THEN Frac(0, 1) ELSE [k \in 1..Len(v) |-> zeros_like(v[k], nd - 1)]

(***************************************************************************)
(* scipy.interpolate.griddata on scattered points of the plane             *)
(***************************************************************************)
\* Twice the signed area of the triangle a, b, c.
Orient(a, b, c) ==
    (b[1] - a[1]) * (c[2] - a[2]) - (b[2] - a[2]) * (c[1] - a[1])

\* Positive when d is strictly inside the circle through a, b, c taken
\* counter-clockwise, zero when it is on the circle.
InCircle(a, b, c, d) ==
    LET ax == a[1] - d[1]    ay == a[2] - d[2]
        bx == b[1] - d[1]    by == b[2] - d[2]
        cx == c[1] - d[1]    cy == c[2] - d[2]
    IN  (ax * ax + ay * ay) * (bx * cy - by * cx)
        - (bx * bx + by * by) * (ax * cy - ay * cx)
        + (cx * cx + cy * cy) * (ax * by - ay * bx)

\* The triangles a Delaunay triangulation of the points may hold: the
\* triples with no other point strictly inside their circumcircle.
EmptyCircle(points) ==
    LET n == Len(points)
    IN  { t \in (1..n) \X (1..n) \X (1..n) :
            /\ t[1] < t[2] /\ t[2] < t[3]
            /\ Orient(points[t[1]], points[t[2]], points[t[3]]) # 0
            /\ \A m \in (1..n) \ {t[1], t[2], t[3]} :
                  InCircle(points[t[1]], points[t[2]], points[t[3]], points[m])
                    * Orient(points[t[1]], points[t[2]], points[t[3]]) <= 0 }

\* A line through an edge of triangle s has s on one side and the whole of
\* triangle t on the other.
SeparatedBy(points, s, t) ==
    \E e \in { <<1, 2, 3>>, <<2, 3, 1>>, <<3, 1, 2>> } :
        \A k \in 1..3 :
            Orient(points[s[e[1]]], points[s[e[2]]], points[t[k]])
              * Orient(points[s[e[1]]], points[s[e[2]]], points[s[e[3]]]) <= 0

\* No two triangles of the set share a point of their interiors.
NoOverlap(points, tris) ==
    \A s, t \in tris :
        s # t => (SeparatedBy(points, s, t) \/ SeparatedBy(points, t, s))

\* Twice the area the triangles of a set cover.
RECURSIVE Area2(_, _)
Area2(points, tris) ==
    IF tris = {} THEN 0
    ELSE LET t == CHOOSE t \in tris : TRUE
         IN  Abs(Orient(points[t[1]], points[t[2]], points[t[3]]))
               + Area2(points, tris \ {t})

\* scipy.spatial.Delaunay(points): the triangulations of the points Qhull
\* can return, each a set of triangles without overlap that covers the
\* convex hull. Points in general position have one; for four or more
\* points on one circle Qhull picks the diagonals, so there are several.
\* Points on one line have the empty triangulation only.
Delaunay(points) ==
    LET fitting == { tris \in SUBSET EmptyCircle(points) : NoOverlap(points, tris) }
        hull(areas) == { tris \in fitting :
                            \A a \in areas : a <= Area2(points, tris) }
    IN  hull({ Area2(points, tris) : tris \in fitting })

\* The barycentric weights of q in triangle t, times twice its area.
Weights(points, t, q) ==
    << Orient(q, points[t[2]], points[t[3]]),
       Orient(points[t[1]], q, points[t[3]]),
       Orient(points[t[1]], points[t[2]], q) >>

\* q lies in triangle t, its edges included.
Contains(points, t, q) ==
    LET det == Orient(points[t[1]], points[t[2]], points[t[3]])
        w == Weights(points, t, q)
    IN  \A k \in 1..3 : w[k] * det >= 0

\* The weighted mean of the values at the three corners, element by element
\* over the nd trailing dimensions of the values.
RECURSIVE Combine(_, _, _, _)
Combine(vs, w, det, nd) ==
    IF nd = 0 THEN Frac(w[1] * vs[1] + w[2] * vs[2] + w[3] * vs[3], det)
    ELSE [k \in 1..Len(vs[1]) |-> Combine([i \in 1..3 |-> vs[i][k]], w, det, nd - 1)]

\* method='linear' at one point: the barycentric interpolation in the
\* triangle of the triangulation tri that holds the point (the triangles
\* that share an edge agree on it), NaN outside the convex hull of the points.
linear_at(points, tri, values, nd, q) ==
    LET holding == { t \in tri : Contains(points, t, q) }
    IN  IF holding = {} THEN NaNLike(values[1], nd)
        ELSE LET t == CHOOSE t \in holding : TRUE
             IN  Combine([i \in 1..3 |-> values[t[i]]], Weights(points, t, q),
                         Orient(points[t[1]], points[t[2]], points[t[3]]), nd)

Dist2(p, q) == (p[1] - q[1]) * (p[1] - q[1]) + (p[2] - q[2]) * (p[2] - q[2])

\* method='nearest' at one point: the value at the closest data point (the
\* first of them in mesh order when several are equally close).
nearest_at(points, values, nd, q) ==
    LET closest == { i \in 1..Len(points) :
                        \A j \in 1..Len(points) : Dist2(points[i], q) <= Dist2(points[j], q) }
        i == CHOOSE i \in closest : \A j \in closest : i <= j
    IN  AsFloat(values[i], nd)

\* griddata(points, values, xi, method) for a list xi of target points;
\* values is [ndim, a]; tri is the triangulation, one of Delaunay(points),
\* that Qhull returns for the points. Values that are no array, or whose
\* length is not the number of points, are rejected; so is a set of points
\* with no triangle.
griddata(points, values, xi, method, tri) ==
    IF values.ndim = 0
    THEN Raise("IndexError", [text |-> "tuple index out of range",
                              field |-> <<>>, count |-> -1])
    ELSE IF Len(values.a) # Len(points)
    THEN Raise("ValueError", [text |-> "different number of values and points",
                              field |-> <<>>, count |-> -1])
    ELSE IF method = "linear" /\ tri = {}
    THEN Raise("QhullError", NoMsg)
    ELSE Return([ndim |-> values.ndim,
                 a |-> [k \in 1..Len(xi) |->
                          IF method = "linear"
                          THEN linear_at(points, tri, values.a, values.ndim - 1, xi[k])
                          ELSE nearest_at(points, values.a, values.ndim - 1, xi[k])]])

\* Mutation: the undefined points are not filled.
fill_nan_skipped(field_data, field_near, nd) == field_data

\* field_data[np.isnan(field_data)] = field_near[np.isnan(field_data)]
RECURSIVE fill_nan(_, _, _)
fill_nan(field_data, field_near, nd) ==
    IF nd = 0 THEN (IF field_data = NaN THEN field_near ELSE field_data)
    ELSE [k \in 1..Len(field_data) |-> fill_nan(field_data[k], field_near[k], nd - 1)]

\* The two griddata calls on one list of target points and the fill.
interpolate(data_coords, values, xi, tri) ==
    LET filled(lin, near) ==
            IF IsError(lin) THEN lin
            ELSE IF IsError(near) THEN near
            ELSE Return([ndim |-> lin.value.ndim,
                         a |-> fill_nan(lin.value.a, near.value.a, lin.value.ndim)])
    IN  filled(griddata(data_coords, values, xi, "linear", tri),
               griddata(data_coords, values, xi, "nearest", tri))

\* array[i] on an array [ndim, a]: for an integer i the entry at i, counted
\* from the end when i is negative; for None the array with a new first
\* axis of length one.
ArrGetItem(arr, i) ==
    IF i = None THEN Return([ndim |-> arr.ndim + 1, a |-> <<arr.a>>])
    ELSE IF arr.ndim = 0 \/ i.i < -Len(arr.a) \/ i.i >= Len(arr.a)
    THEN Raise("IndexError", NoMsg)
    ELSE Return([ndim |-> arr.ndim - 1,
                 a |-> arr.a[(IF i.i < 0 THEN i.i + Len(arr.a) ELSE i.i) + 1]])

(***************************************************************************)
(* The coordinate helper and the extrusion generator                       *)
(***************************************************************************)
\* A value the coordinate helper returns for the figure (a label, the
\* limits or the ticks of the axes): known by the call that produced it.
HelperOutput(name, slice_name, slice_idx) ==
    [helper |-> "get_lfric_coords_2d", output |-> name,
     slice_name |-> slice_name, slice_idx |-> slice_idx]

\* get_lfric_coords_2d: the data coordinates are the points of the mesh that
\* hori_placement names; the target points are built from the two axes of
\* plot_coords_1d, or, when that is None, from the axes generated_coords_1d
\* the helper makes itself: a grid of rows for 'xy', one line of points,
\* repeated for every level, otherwise. With them come the labels, limits
\* and ticks of the axes and the label of the slice.
get_lfric_coords_2d(data_file, hori_placement, vert_placement, slice_name, slice_idx, plot_coords_1d, generated_coords_1d) ==
    LET X == DictGet(data_file, hori_placement \o s_x)
        Y == DictGet(data_file, hori_placement \o s_y)
        axes == IF plot_coords_1d = None THEN generated_coords_1d ELSE plot_coords_1d.v
        xs == axes[1]
        ys == axes[2]
        rows == IF slice_name = PyStr("xy") THEN Len(ys)
                ELSE IF vert_placement = None THEN 1
                ELSE DimSize(vert_placement.s)
    IN  IF IsError(X) THEN X
        ELSE IF IsError(Y) THEN Y
        ELSE Return(
            [data_coords |-> [c \in 1..Len(X.value.data) |->
                                 <<X.value.data[c], Y.value.data[c]>>],
             interp_coords_2d |->
                 IF slice_name = PyStr("xy")
                 THEN [j \in 1..Len(ys) |-> [i \in 1..Len(xs) |-> <<xs[i], ys[j]>>]]
                 ELSE [i \in 1..Len(xs) |-> <<xs[i], ys[1]>>],
             plot_coords |->
                 << [j \in 1..rows |-> [i \in 1..Len(xs) |-> xs[i]]],
                    [j \in 1..rows |-> [i \in 1..Len(xs) |->
                        IF slice_name = PyStr("xy") THEN ys[j] ELSE j - 1]] >>,
             coord_labels |-> HelperOutput("coord_labels", slice_name, slice_idx),
             coord_lims |-> HelperOutput("coord_lims", slice_name, slice_idx),
             coord_ticks |-> HelperOutput("coord_ticks", slice_name, slice_idx),
             slice_label |-> HelperOutput("slice_label", slice_name, slice_idx)])

\* generate_extrusion for a uniform extrusion: the height of each row.
generate_extrusion(vert_placement, n) == [row \in 1..n |-> 2 * (row - 1)]

(***************************************************************************)
(* extract_lfric_2D_data: the interpolation                                *)
(***************************************************************************)
\* slice_name == 'xy': one interpolation of the whole field, or of its level
\* slice_idx, on all the points of the target grid xi at once; the result
\* has the rows and columns of the grid.
interpolate_xy(data_coords, field_full, vert_placement, slice_idx, xi, tri) ==
    LET rows == Len(xi)
        cols == IF Len(xi) = 0 THEN 0 ELSE Len(xi[1])
        shaped(flat) ==
            IF IsError(flat) THEN flat
            ELSE Return([j \in 1..rows |->
                           [i \in 1..cols |-> flat.value.a[(j - 1) * cols + i]]])
        interpolated(vals) ==
            IF IsError(vals) THEN vals
            ELSE shaped(interpolate(data_coords, vals.value,
                                    [k \in 1..(rows * cols) |->
                                        xi[((k - 1) \div cols) + 1][((k - 1) % cols) + 1]],
                                    tri))
    IN  interpolated(IF vert_placement = None THEN Return(field_full)
                     ELSE ArrGetItem(field_full, slice_idx))

\* field_data[level] = slice_data on a row of `cols` numbers: numpy
\* broadcasts the array to the row. Its axes before the last must have
\* length one, its last axis the length of the row or length one (the value
\* is then repeated). Returns the new row, or None when the shapes do not fit.
RECURSIVE broadcast_row(_, _, _)
broadcast_row(a, nd, cols) ==
    IF nd = 0 THEN [i \in 1..cols |-> a]
    ELSE IF nd = 1
    THEN (IF Len(a) = cols THEN a
          ELSE IF Len(a) = 1 THEN [i \in 1..cols |-> a[1]]
          ELSE None)
    ELSE IF Len(a) = 1 THEN broadcast_row(a[1], nd - 1, cols)
    ELSE None

\* The other slices: every level of the field is interpolated on the line of
\* target points and stored in its row of field_data.
RECURSIVE interpolate_levels(_, _, _, _, _, _)
interpolate_levels(data_coords, field_full, xi, level, field_data, tri) ==
    LET assigned(row) ==
            IF row = None
            THEN Raise("ValueError", [text |-> "could not broadcast input array",
                                      field |-> <<>>, count |-> -1])
            ELSE interpolate_levels(data_coords, field_full, xi, level + 1,
                                    [field_data EXCEPT ![level + 1] = row], tri)
        stored(slice_data) ==
            IF IsError(slice_data) THEN slice_data
            ELSE IF level >= Len(field_data)
            THEN Raise("IndexError", NoMsg)
            ELSE assigned(broadcast_row(slice_data.value.a, slice_data.value.ndim,
                                        Len(field_data[level + 1])))
    IN  IF level >= Len(field_full.a) THEN Return(field_data)
        ELSE stored(interpolate(data_coords,
                                ArrGetItem(field_full, PyInt(level)).value, xi, tri))

\* Returns [ret, events]: the checks, the time variable, the placements, the
\* call of the coordinate helper get_lfric_coords_2d, the read of the field,
\* the interpolation and, for 'xz' and 'yz', the heights of the rows.
\* generated_coords_1d are the axes the helper makes when plot_coords_1d is
\* None, tri the triangulation Qhull returns for the points of the mesh.
extract_lfric_2D_data(data_file, field_name, time_idx, slice_name, slice_idx, plot_coords_1d, generated_coords_1d, tri) ==
    LET returned(co, plot_coords, vertical_coords_1d, field_data, time, ev_read) ==
            IF IsError(field_data) THEN [ret |-> field_data, events |-> ev_read]
            ELSE [ret |-> Return([plot_X |-> plot_coords[1],
                                  plot_Y |->
                                      IF slice_name \in {PyStr("xz"), PyStr("yz")}
                                      THEN [row \in 1..Len(plot_coords[2]) |->
                                              [i \in 1..Len(plot_coords[2][row]) |->
                                                  vertical_coords_1d[row]]]
                                      ELSE plot_coords[2],
                                  field_data |-> field_data.value,
                                  data_metadata |->
                                      [time |-> time,
                                       slice_label |-> co.slice_label,
                                       coord_labels |-> co.coord_labels,
                                       coord_lims |-> co.coord_lims,
                                       coord_ticks |-> co.coord_ticks]]),
                  events |-> ev_read]
        interpolated(co, field_full, vert_placement, time, ev_read) ==
            returned(co, co.plot_coords,
                     generate_extrusion(vert_placement, Len(co.plot_coords[1])),
                     IF slice_name = PyStr("xy")
                     THEN interpolate_xy(co.data_coords, field_full, vert_placement,
                                         slice_idx, co.interp_coords_2d, tri)
                     ELSE interpolate_levels(co.data_coords, field_full,
                                             co.interp_coords_2d, 0,
                                             zeros_like(co.plot_coords[1], 2), tri),
                     time, ev_read)
        read(co, field_full, vert_placement, time, ev_coords, ev_read) ==
            IF IsError(co) THEN [ret |-> co, events |-> ev_coords]
            ELSE IF IsError(field_full) THEN [ret |-> field_full, events |-> ev_read]
            ELSE interpolated(co.value, field_full.value, vert_placement, time, ev_read)
        with_index(pl, index, time, ev_coords) ==
            read(get_lfric_coords_2d(data_file, pl.hori_placement, pl.vert_placement,
                                     slice_name, slice_idx, plot_coords_1d,
                                     generated_coords_1d),
                 VarGetItem(data_file.variables[field_name], index),
                 pl.vert_placement, time, ev_coords,
                 ev_coords \o <<[ev |-> "read", name |-> field_name, index |-> index]>>)
        located(pl, tv, ev_dims) ==
            IF IsError(pl) THEN [ret |-> pl, events |-> ev_dims]
            ELSE with_index(pl.value,
                            field_full_index(tv.lfric_initial, pl.value.vert_placement,
                                             time_idx),
                            tv.time,
                            ev_dims \o
                              <<[ev |-> "call", name |-> "get_lfric_coords_2d",
                                 hori_placement |-> pl.value.hori_placement,
                                 vert_placement |-> pl.value.vert_placement,
                                 slice_name |-> slice_name, slice_idx |-> slice_idx]>>)
        timed(tv) ==
            IF IsError(tv.ret) THEN tv
            ELSE located(placements(data_file.variables[field_name].dimensions,
                                    tv.ret.value.lfric_initial),
                         tv.ret.value,
                         tv.events \o <<[ev |-> "dimensions", name |-> field_name]>>)
    IN  IF ~slice_name_ok(slice_name)
        THEN [ret |-> Raise("ValueError",
                            [text |-> "For 2D plots slice must be xy, yz or xz",
                             field |-> <<>>, count |-> -1]),
              events |-> <<>>]
        ELSE timed(time_variable(data_file, time_idx))

(***************************************************************************)
(* Spec2D: calls of extract_lfric_2D_data on one data file.                *)
(***************************************************************************)
\* The points of the mesh of a data file: no three of the first NC on a line.
MeshPoints == << <<0, 0>>, <<4, 0>>, <<0, 4>>, <<3, 3>>, <<6, 1>> >>
PlaneMesh == [X |-> [i \in 1..NC |-> MeshPoints[i][1]],
              Y |-> [i \in 1..NC |-> MeshPoints[i][2]]]

\* An array of the given shape all of whose values are c.
RECURSIVE ConstArr(_, _)
ConstArr(shape, c) ==
    IF shape = <<>> THEN c
    ELSE [i \in 1..Head(shape) |-> ConstArr(Tail(shape), c)]

\* The value of a field that is the same everywhere.
FieldConstants == {5}

\* A data file: a field dataset with the time variables that `times` names;
\* the field has its own value in every cell, or, when `constant` is a
\* number, that number everywhere.
DataFile(dims, times, constant) ==
    LET base == FieldDataset(dims, PlaneMesh.X, PlaneMesh.Y,
                             {s_Mesh2d_face_x, s_Mesh2d_face_y})
    IN  [variables |->
            [n \in DOMAIN base.variables \cup times |->
                IF n = s_time THEN Variable(<<s_time>>, 9)
                ELSE IF n = s_time_instant THEN Variable(<<s_time>>, 6)
                ELSE IF n = s_field /\ constant # None
                THEN [base.variables[n] EXCEPT
                        !.data = ConstArr(ShapeOf(dims), constant.i)]
                ELSE base.variables[n]]]

\* The values of slice_name a caller may pass: the three cross-sections, the
\* default None, and names that are no cross-section.
SliceNames == {PyStr("xy"), PyStr("yz"), PyStr("xz"), None,
               PyStr("zx"), PyStr("XY"), PyStr("")}

\* The axes of a target grid: inside the mesh, and across its boundary.
TargetAxes == { <<1, 2>>, <<1, 5>> }

PyTuple(v) == [tag |-> "tuple", v |-> v]

\* The values of plot_coords_1d a caller may pass, the default None among
\* them, each with the axes the coordinate helper makes for the default.
PlotCoords1d ==
    { [plot_coords_1d |-> PyTuple(<<xs, ys>>), generated_coords_1d |-> <<xs, ys>>] :
        xs \in TargetAxes, ys \in TargetAxes }
    \cup { [plot_coords_1d |-> None, generated_coords_1d |-> <<xs, xs>>] :
              xs \in TargetAxes }

\* The values of time_idx and of slice_idx a caller may pass: the entries of
\* the time dimension, one past its end and the last one counted from the
\* end; the lowest level, the last level counted from the end and the
\* default None.
TimeIndices == (0..NT) \cup {-1}
SliceIndices == {None, PyInt(0), PyInt(-1)}

\* The points of the mesh of a data file, none when it has no mesh.
MeshOf(data_file) ==
    IF {s_Mesh2d_face_x, s_Mesh2d_face_y} \subseteq DOMAIN data_file.variables
    THEN [c \in 1..Len(data_file.variables[s_Mesh2d_face_x].data) |->
            << data_file.variables[s_Mesh2d_face_x].data[c],
               data_file.variables[s_Mesh2d_face_y].data[c] >>]
    ELSE <<>>

Init2D ==
    /\ \E dims \in FieldDims, times \in SUBSET {s_time, s_time_instant},
          constant \in {None} \cup {PyInt(c) : c \in FieldConstants} :
          field_dataset = DataFile(dims, times, constant)
    /\ height_dataset = None
    /\ cube = Cube(DefaultMesh)
    /\ call = NoCall
    /\ ret = Return(<<>>)
    /\ events = <<>>
    /\ logs = None
    /\ output_file = None
    /\ data_frames = <<>>

Call2D ==
    \E time_idx \in TimeIndices, slice_name \in SliceNames, slice_idx \in SliceIndices,
       pc \in PlotCoords1d, tri \in Delaunay(MeshOf(field_dataset)) :
        LET r == extract_lfric_2D_data(field_dataset, s_field, PyInt(time_idx),
                                       slice_name, slice_idx, pc.plot_coords_1d,
                                       pc.generated_coords_1d, tri)
        IN  /\ call = NoCall
            /\ call' = [fn |-> "extract_lfric_2D_data", field_name |-> s_field,
                        time_idx |-> time_idx, slice_name |-> slice_name,
                        slice_idx |-> slice_idx,
                        plot_coords_1d |-> pc.plot_coords_1d,
                        generated_coords_1d |-> pc.generated_coords_1d]
            /\ ret' = r.ret
            /\ events' = r.events
            /\ UNCHANGED <<field_dataset, height_dataset, cube, logs, output_file, data_frames>>

Next2D == Call2D

Spec2D == Init2D /\ [][Next2D]_vars

(***************************************************************************)
(* convert_global_output (src/tomplot/global_output_converter.py)          *)
(*                                                                         *)
(* A log is the table pd.read_csv parses it into: one record per line,     *)
(* holding the columns the routine uses. Numbers read as floats are        *)
(* integers here. The output file is its dimensions (with their current    *)
(* lengths), its groups and its variables; a variable holds the cells that *)
(* were written, every other cell inside the dimensions is the fill value. *)
(***************************************************************************)
s_run_id == <<"r", "u", "n", "_", "i", "d">>
s_error_time == <<"e", "r", "r", "o", "r", "_", "t", "i", "m", "e">>
s_errors == <<"e", "r", "r", "o", "r", "s">>
s_global_quantities == <<"g", "l", "o", "b", "a", "l", "_", "q", "u", "a", "n", "t", "i", "t", "i", "e", "s">>
s_total == <<"t", "o", "t", "a", "l">>
s_Before == <<"B", "e", "f", "o", "r", "e">>
s_After == <<"A", "f", "t", "e", "r">>
s_timestep == <<"t", "i", "m", "e", "s", "t", "e", "p">>
s_Before_timestep == <<"B", "e", "f", "o", "r", "e", "_", "t", "i", "m", "e", "s", "t", "e", "p">>
s_After_timestep == <<"A", "f", "t", "e", "r", "_", "t", "i", "m", "e", "s", "t", "e", "p">>
s_species_1 == <<"1", ",">>
s_species_2 == <<"2", ",">>
s_species_3 == <<"3", ",">>
s_species_10 == <<"1", "0", ",">>
s_theta == <<"t", "h", "e", "t", "a">>
s_Min_initial == <<"M", "i", "n", "-", "i", "n", "i", "t", "i", "a", "l">>
s_Max_initial == <<"M", "a", "x", "-", "i", "n", "i", "t", "i", "a", "l">>
s_L2_initial == <<"L", "2", "-", "i", "n", "i", "t", "i", "a", "l">>
s_L2_final == <<"L", "2", "-", "f", "i", "n", "a", "l">>
s_Rel_L2_error == <<"R", "e", "l", "-", "L", "2", "-", "e", "r", "r", "o", "r">>
s_Dissipation == <<"D", "i", "s", "s", "i", "p", "a", "t", "i", "o", "n">>
s_Dispersion == <<"D", "i", "s", "p", "e", "r", "s", "i", "o", "n">>
s_some_custom_metric == <<"s", "o", "m", "e", "_", "c", "u", "s", "t", "o", "m", "_", "m", "e", "t", "r", "i", "c">>
s_Mass == <<"M", "a", "s", "s">>
s_physics == <<"p", "h", "y", "s", "i", "c", "s">>
s_param_a == <<"a">>
s_param_b == <<"b">>

PyList(v) == [tag |-> "list", v |-> v]
PyDict(items) == [tag |-> "dict", items |-> items]
PyFloat(f) == [tag |-> "float", f |-> f]
Msg(text) == [text |-> text, field |-> <<>>, count |-> -1]

\* Mutation: 'L2-initial' is no error metric.
all_errors_without_L2_initial ==
    { s_Min_initial, s_Max_initial, s_L2_final,
      s_Rel_L2_error, s_Dissipation, s_Dispersion }

all_errors == { s_Min_initial, s_Max_initial, s_L2_initial, s_L2_final,
                s_Rel_L2_error, s_Dissipation, s_Dispersion }

\* Mutation: the length of a parameter's list is not compared.
param_rejected_any_length(param_value, source_dirs) == param_value.tag # "list"

\* A parameter that the checks for a list of source directories reject.
param_rejected(param_value, source_dirs) ==
    \/ param_value.tag # "list"
    \/ Len(param_value.v) # Len(source_dirs)

\* The checks of run_params and source_dirs: returns source_dirs as a list
\* and run_params as a list of <<key, list>>, or raises.
check_run_params(source_dirs, run_params) ==
    IF run_params # None /\ run_params.tag # "dict"
    THEN Raise("TypeError", Msg("run_params should be a dict"))
    ELSE
    LET items == IF run_params = None THEN <<>> ELSE run_params.items
    IN  IF source_dirs.tag # "list"
        THEN Return([source_dirs |-> <<source_dirs.s>>,
                     run_params |-> [k \in 1..Len(items) |->
                                        <<items[k][1], PyList(<<items[k][2]>>)>>]])
        ELSE IF \E k \in 1..Len(items) : param_rejected(items[k][2], source_dirs.v)
        THEN LET k == CHOOSE k \in 1..Len(items) :
                        /\ param_rejected(items[k][2], source_dirs.v)
                        /\ \A j \in 1..(k - 1) : ~param_rejected(items[j][2], source_dirs.v)
             IN  IF items[k][2].tag # "list"
                 THEN Raise("TypeError",
                            [text |-> "each param in run_params should also be a list",
                             field |-> items[k][1], count |-> -1])
                 ELSE Raise("ValueError",
                            [text |-> "List should be of length to match length of source_dirs",
                             field |-> items[k][1], count |-> Len(source_dirs.v)])
        ELSE Return([source_dirs |-> source_dirs.v, run_params |-> items])

\* Mutation: every mode passes the check.
mode_ok_unchecked(mode) == TRUE

\* mode in ['transport_stats', 'gungho_mass']
mode_ok(mode) == mode \in {PyStr("transport_stats"), PyStr("gungho_mass")}

(***************************************************************************)
(* Reading the logs and the manipulations of gungho_mass                   *)
(***************************************************************************)
\* The sequences of a sequence of sequences, joined.
RECURSIVE Flatten(_)
Flatten(seqs) ==
    IF seqs = <<>> THEN <<>> ELSE Head(seqs) \o Flatten(Tail(seqs))

\* Series.unique(): the distinct values in the order of their first appearance.
RECURSIVE Unique(_)
Unique(s) ==
    IF s = <<>> THEN <<>>
    ELSE LET u == Unique(SubSeq(s, 1, Len(s) - 1))
             last == s[Len(s)]
         IN  IF \E k \in 1..Len(u) : u[k] = last THEN u ELSE Append(u, last)

RECURSIVE Sum(_)
Sum(s) == IF s = <<>> THEN 0 ELSE Head(s) + Sum(Tail(s))

\* sort_values('time'): the rows by ascending time. The sort (quicksort by
\* default) promises no order among the rows of one time: `ties` gives it,
\* the rows of one time, counted in their order in the table, come out by
\* ascending ties[count] (in table order beyond the length of ties).
SortByTime(rows, ties) ==
    LET n == Len(rows)
        count == [k \in 1..n |-> Cardinality({j \in 1..k : rows[j].time = rows[k].time})]
        place == [k \in 1..n |-> IF count[k] <= Len(ties) THEN ties[count[k]] ELSE count[k]]
        rank == [k \in 1..n |->
                    Cardinality({j \in 1..n : \/ rows[j].time < rows[k].time
                                              \/ (rows[j].time = rows[k].time /\ place[j] <= place[k])})]
    IN  [p \in 1..n |-> rows[CHOOSE k \in 1..n : rank[k] = p]]

\* The order of ties of one sort of a conversion: the sorts take the orders
\* of `ties` in turn.
tie_order(ties, series) == ties[(series % Len(ties)) + 1]

Times(rows) == [k \in 1..Len(rows) |-> rows[k].time]
Stages(rows) == [k \in 1..Len(rows) |-> rows[k].timestage]
Masses(rows) == [k \in 1..Len(rows) |-> rows[k].mass]
SpeciesOf(rows) == [k \in 1..Len(rows) |-> rows[k].species]
VariablesOf(rows) == [k \in 1..Len(rows) |-> rows[k].variable]
MeasuresOf(rows) == [k \in 1..Len(rows) |-> rows[k].measure_name]
ValuesOf(rows) == [k \in 1..Len(rows) |-> rows[k].measure_value]

\* pd.read_csv(file_name, ...): the rows of the log of a source directory.
read_csv(files, source_dir) ==
    IF files[source_dir] = None
    THEN Raise("FileNotFoundError", Msg(source_dir))
    ELSE Return(files[source_dir].rows)

\* str(species_str[0]): the first character of the species code.
species_label(species_str) == <<species_str[1]>>

\* f'{point1}_{point2}'
point_in_timestep(point1, point2) == point1 \o <<"_">> \o point2

\* One row after the manipulations up to the re-labelling: species, mass,
\* timestage and time, 'Before_timestep' moved to time 0 of 'After_timestep'.
relabel(row, dt) ==
    LET timestage == point_in_timestep(row.timestage1, row.timestage2)
        time == IF dt # None THEN row.timestep * dt.i ELSE row.timestep
    IN  [species |-> species_label(row.species_str),
         mass |-> row.mass,
         timestage |-> IF timestage = s_Before_timestep THEN s_After_timestep
                       ELSE timestage,
         time |-> IF timestage = s_Before_timestep THEN 0 ELSE time]

\* Mutation: the total is the mass of the first row of the (time, stage).
total_mass_first(rows, time, stage) ==
    Head(Masses(SelectSeq(rows, LAMBDA r : r.time = time /\ r.timestage = stage)))

\* np.sum of the masses of the rows of a (time, stage).
total_mass(rows, time, stage) ==
    Sum(Masses(SelectSeq(rows, LAMBDA r : r.time = time /\ r.timestage = stage)))

\* total_data: one row of species 'total' per time and stage of that time.
total_data(rows) ==
    LET unique_times == Unique(Times(rows))
        unique_stages(time) ==
            Unique(Stages(SelectSeq(rows, LAMBDA r : r.time = time)))
    IN  Flatten([t \in 1..Len(unique_times) |->
            [s \in 1..Len(unique_stages(unique_times[t])) |->
                [species |-> s_total,
                 mass |-> total_mass(rows, unique_times[t],
                                     unique_stages(unique_times[t])[s]),
                 timestage |-> unique_stages(unique_times[t])[s],
                 time |-> unique_times[t]]]])

\* Mutation: a log whose masses are no numbers gives an empty table.
manipulate_skipping(raw_data, mode, dt) ==
    IF mode = PyStr("gungho_mass") /\ \E k \in 1..Len(raw_data) : "mass" \notin DOMAIN raw_data[k]
    THEN Return(<<>>)
    ELSE IF mode = PyStr("gungho_mass")
    THEN Return([k \in 1..Len(raw_data) |-> relabel(raw_data[k], dt)]
                \o total_data([k \in 1..Len(raw_data) |-> relabel(raw_data[k], dt)]))
    ELSE Return(raw_data)

\* The table of one run appended to data_frame_list, or the ValueError of
\* raw_data['mass'].astype(float) on a row whose mass field is no number.
manipulate(raw_data, mode, dt) ==
    IF mode = PyStr("gungho_mass")
    THEN IF \E k \in 1..Len(raw_data) : "mass" \notin DOMAIN raw_data[k]
         THEN Raise("ValueError", Msg("could not convert string to float"))
         ELSE LET rows == [k \in 1..Len(raw_data) |-> relabel(raw_data[k], dt)]
              IN  Return(rows \o total_data(rows))
    ELSE Return(raw_data)

\* The loop over source_dirs: returns [ret, events, data_frame_list]; each
\* read of a log is an event. The loop ends at the first log that cannot be
\* read or transformed.
RECURSIVE read_logs(_, _, _, _, _, _, _)
read_logs(files, source_dirs, mode, dt, k, data_frame_list, evs) ==
    LET failed(error, ev_read) ==
            [ret |-> error, events |-> ev_read, data_frame_list |-> data_frame_list]
        appended(table, ev_read) ==
            IF IsError(table) THEN failed(table, ev_read)
            ELSE read_logs(files, source_dirs, mode, dt, k + 1,
                           Append(data_frame_list, table.value), ev_read)
        transformed(raw_data, ev_read) ==
            IF IsError(raw_data) THEN failed(raw_data, ev_read)
            ELSE appended(manipulate(raw_data.value, mode, dt), ev_read)
    IN  IF k > Len(source_dirs)
        THEN [ret |-> Return(None), events |-> evs, data_frame_list |-> data_frame_list]
        ELSE transformed(read_csv(files, source_dirs[k]),
                         Append(evs, [ev |-> "read_csv", name |-> source_dirs[k]]))

(***************************************************************************)
(* The output file                                                         *)
(***************************************************************************)
\* Dataset(output_file_name, 'w'): an empty file with its root group.
NewFile == [dims |-> <<>>, groups |-> {<<>>}, vars |-> <<>>]

\* The calls made on the output file, in the order the routine makes them.
Op(op, path, name, dims, idx, val) ==
    [op |-> op, path |-> path, name |-> name, dims |-> dims, idx |-> idx, val |-> val]
CreateDimension(name) == Op("createDimension", <<>>, name, <<>>, <<>>, 0)
CreateGroup(path, name) == Op("createGroup", path, name, <<>>, <<>>, 0)
CreateVariable(path, name, dtype, dims) ==
    Op("createVariable", path, name, dims, <<>>, dtype)
SetItem(path, idx, val) == Op("setitem", path, <<>>, <<>>, idx, val)
SetAll(path, values) == Op("setall", path, <<>>, <<>>, <<>>, values)
\* variable[:] = a Python list of numbers or strings
SetList(path, values) == Op("setlist", path, <<>>, <<>>, <<>>, values)
\* an exception the routine runs into between two calls
RaiseOp(cls, text) == Op("raise", <<>>, <<>>, <<>>, <<>>, Raise(cls, Msg(text)))

Max(a, b) == IF a >= b THEN a ELSE b

\* An integer index on a dimension of the given length: a negative one
\* counts from the end, IndexError (-1 here) when it reaches before the start.
normal_index(e, length) ==
    IF e >= 0 THEN e ELSE IF -e <= length THEN e + length ELSE -1

\* variable[idx] = val: the cell is written and the unlimited dimensions
\* of the variable grow to hold it.
setitem(file, path, idx, val) ==
    IF path \notin DOMAIN file.vars
    THEN [file |-> file, err |-> Raise("IndexError", Msg("not found"))]
    ELSE
    LET var == file.vars[path]
        nidx == [p \in 1..Len(idx) |-> normal_index(idx[p], file.dims[var.dims[p]])]
    IN  IF \E p \in 1..Len(idx) : nidx[p] < 0
        THEN [file |-> file, err |-> Raise("IndexError", Msg("Index out of range"))]
        ELSE [file |->
                [file EXCEPT
                    !.vars[path].cells = (nidx :> val) @@ var.cells,
                    !.dims = [d \in DOMAIN file.dims |->
                                IF \E p \in 1..Len(idx) : var.dims[p] = d
                                THEN Max(file.dims[d],
                                         1 + nidx[CHOOSE p \in 1..Len(idx) : var.dims[p] = d])
                                ELSE file.dims[d]]],
              err |-> None]

\* variable[:] = values on a variable of one dimension.
RECURSIVE setall(_, _, _, _)
setall(file, path, values, k) ==
    IF k > Len(values) THEN [file |-> file, err |-> None]
    ELSE LET r == setitem(file, path, <<k - 1>>, values[k])
         IN  IF r.err # None THEN r ELSE setall(r.file, path, values, k + 1)

\* A character of a Python string is a string of one character where such a
\* string can be written, and else the name of its code point, "U+000B" for
\* the vertical tab.
\*
\* The characters beyond ASCII that are whitespace (str.isspace).
UnicodeSpace ==
    { "U+0085", "U+00A0", "U+1680", "U+2000", "U+2001", "U+2002", "U+2003", "U+2004",
      "U+2005", "U+2006", "U+2007", "U+2008", "U+2009", "U+200A", "U+2028", "U+2029",
      "U+202F", "U+205F", "U+3000" }

\* The characters int() and float() skip at the ends of a string: blank,
\* tab, newline, carriage return, form feed and vertical tab, and the
\* whitespace beyond ASCII, which they read as a blank.
Whitespace == {" ", "\t", "\n", "\r", "\f", "U+000B"} \cup UnicodeSpace

RECURSIVE strip(_)
strip(s) ==
    IF s = <<>> THEN s
    ELSE IF s[1] \in Whitespace THEN strip(Tail(s))
    ELSE IF s[Len(s)] \in Whitespace THEN strip(SubSeq(s, 1, Len(s) - 1))
    ELSE s

\* The decimal digits of ASCII, and the characters beyond ASCII that are
\* decimal digits (Unicode 14.0.0), which int() and float() read as the ASCII
\* digit of their value: DecimalChars[d + 1] are those of value d.
DigitChars == <<"0", "1", "2", "3", "4", "5", "6", "7", "8", "9">>
DecimalChars ==
    << { "U+0660", "U+06F0", "U+07C0", "U+0966", "U+09E6", "U+0A66", "U+0AE6", "U+0B66",
         "U+0BE6", "U+0C66", "U+0CE6", "U+0D66", "U+0DE6", "U+0E50", "U+0ED0", "U+0F20",
         "U+1040", "U+1090", "U+17E0", "U+1810", "U+1946", "U+19D0", "U+1A80", "U+1A90",
         "U+1B50", "U+1BB0", "U+1C40", "U+1C50", "U+A620", "U+A8D0", "U+A900", "U+A9D0",
         "U+A9F0", "U+AA50", "U+ABF0", "U+FF10", "U+104A0", "U+10D30", "U+11066", "U+110F0",
         "U+11136", "U+111D0", "U+112F0", "U+11450", "U+114D0", "U+11650", "U+116C0", "U+11730",
         "U+118E0", "U+11950", "U+11C50", "U+11D50", "U+11DA0", "U+16A60", "U+16AC0", "U+16B50",
         "U+1D7CE", "U+1D7D8", "U+1D7E2", "U+1D7EC", "U+1D7F6", "U+1E140", "U+1E2F0", "U+1E950",
         "U+1FBF0" },
       { "U+0661", "U+06F1", "U+07C1", "U+0967", "U+09E7", "U+0A67", "U+0AE7", "U+0B67",
         "U+0BE7", "U+0C67", "U+0CE7", "U+0D67", "U+0DE7", "U+0E51", "U+0ED1", "U+0F21",
         "U+1041", "U+1091", "U+17E1", "U+1811", "U+1947", "U+19D1", "U+1A81", "U+1A91",
         "U+1B51", "U+1BB1", "U+1C41", "U+1C51", "U+A621", "U+A8D1", "U+A901", "U+A9D1",
         "U+A9F1", "U+AA51", "U+ABF1", "U+FF11", "U+104A1", "U+10D31", "U+11067", "U+110F1",
         "U+11137", "U+111D1", "U+112F1", "U+11451", "U+114D1", "U+11651", "U+116C1", "U+11731",
         "U+118E1", "U+11951", "U+11C51", "U+11D51", "U+11DA1", "U+16A61", "U+16AC1", "U+16B51",
         "U+1D7CF", "U+1D7D9", "U+1D7E3", "U+1D7ED", "U+1D7F7", "U+1E141", "U+1E2F1", "U+1E951",
         "U+1FBF1" },
       { "U+0662", "U+06F2", "U+07C2", "U+0968", "U+09E8", "U+0A68", "U+0AE8", "U+0B68",
         "U+0BE8", "U+0C68", "U+0CE8", "U+0D68", "U+0DE8", "U+0E52", "U+0ED2", "U+0F22",
         "U+1042", "U+1092", "U+17E2", "U+1812", "U+1948", "U+19D2", "U+1A82", "U+1A92",
         "U+1B52", "U+1BB2", "U+1C42", "U+1C52", "U+A622", "U+A8D2", "U+A902", "U+A9D2",
         "U+A9F2", "U+AA52", "U+ABF2", "U+FF12", "U+104A2", "U+10D32", "U+11068", "U+110F2",
         "U+11138", "U+111D2", "U+112F2", "U+11452", "U+114D2", "U+11652", "U+116C2", "U+11732",
         "U+118E2", "U+11952", "U+11C52", "U+11D52", "U+11DA2", "U+16A62", "U+16AC2", "U+16B52",
         "U+1D7D0", "U+1D7DA", "U+1D7E4", "U+1D7EE", "U+1D7F8", "U+1E142", "U+1E2F2", "U+1E952",
         "U+1FBF2" },
       { "U+0663", "U+06F3", "U+07C3", "U+0969", "U+09E9", "U+0A69", "U+0AE9", "U+0B69",
         "U+0BE9", "U+0C69", "U+0CE9", "U+0D69", "U+0DE9", "U+0E53", "U+0ED3", "U+0F23",
         "U+1043", "U+1093", "U+17E3", "U+1813", "U+1949", "U+19D3", "U+1A83", "U+1A93",
         "U+1B53", "U+1BB3", "U+1C43", "U+1C53", "U+A623", "U+A8D3", "U+A903", "U+A9D3",
         "U+A9F3", "U+AA53", "U+ABF3", "U+FF13", "U+104A3", "U+10D33", "U+11069", "U+110F3",
         "U+11139", "U+111D3", "U+112F3", "U+11453", "U+114D3", "U+11653", "U+116C3", "U+11733",
         "U+118E3", "U+11953", "U+11C53", "U+11D53", "U+11DA3", "U+16A63", "U+16AC3", "U+16B53",
         "U+1D7D1", "U+1D7DB", "U+1D7E5", "U+1D7EF", "U+1D7F9", "U+1E143", "U+1E2F3", "U+1E953",
         "U+1FBF3" },
       { "U+0664", "U+06F4", "U+07C4", "U+096A", "U+09EA", "U+0A6A", "U+0AEA", "U+0B6A",
         "U+0BEA", "U+0C6A", "U+0CEA", "U+0D6A", "U+0DEA", "U+0E54", "U+0ED4", "U+0F24",
         "U+1044", "U+1094", "U+17E4", "U+1814", "U+194A", "U+19D4", "U+1A84", "U+1A94",
         "U+1B54", "U+1BB4", "U+1C44", "U+1C54", "U+A624", "U+A8D4", "U+A904", "U+A9D4",
         "U+A9F4", "U+AA54", "U+ABF4", "U+FF14", "U+104A4", "U+10D34", "U+1106A", "U+110F4",
         "U+1113A", "U+111D4", "U+112F4", "U+11454", "U+114D4", "U+11654", "U+116C4", "U+11734",
         "U+118E4", "U+11954", "U+11C54", "U+11D54", "U+11DA4", "U+16A64", "U+16AC4", "U+16B54",
         "U+1D7D2", "U+1D7DC", "U+1D7E6", "U+1D7F0", "U+1D7FA", "U+1E144", "U+1E2F4", "U+1E954",
         "U+1FBF4" },
       { "U+0665", "U+06F5", "U+07C5", "U+096B", "U+09EB", "U+0A6B", "U+0AEB", "U+0B6B",
         "U+0BEB", "U+0C6B", "U+0CEB", "U+0D6B", "U+0DEB", "U+0E55", "U+0ED5", "U+0F25",
         "U+1045", "U+1095", "U+17E5", "U+1815", "U+194B", "U+19D5", "U+1A85", "U+1A95",
         "U+1B55", "U+1BB5", "U+1C45", "U+1C55", "U+A625", "U+A8D5", "U+A905", "U+A9D5",
         "U+A9F5", "U+AA55", "U+ABF5", "U+FF15", "U+104A5", "U+10D35", "U+1106B", "U+110F5",
         "U+1113B", "U+111D5", "U+112F5", "U+11455", "U+114D5", "U+11655", "U+116C5", "U+11735",
         "U+118E5", "U+11955", "U+11C55", "U+11D55", "U+11DA5", "U+16A65", "U+16AC5", "U+16B55",
         "U+1D7D3", "U+1D7DD", "U+1D7E7", "U+1D7F1", "U+1D7FB", "U+1E145", "U+1E2F5", "U+1E955",
         "U+1FBF5" },
       { "U+0666", "U+06F6", "U+07C6", "U+096C", "U+09EC", "U+0A6C", "U+0AEC", "U+0B6C",
         "U+0BEC", "U+0C6C", "U+0CEC", "U+0D6C", "U+0DEC", "U+0E56", "U+0ED6", "U+0F26",
         "U+1046", "U+1096", "U+17E6", "U+1816", "U+194C", "U+19D6", "U+1A86", "U+1A96",
         "U+1B56", "U+1BB6", "U+1C46", "U+1C56", "U+A626", "U+A8D6", "U+A906", "U+A9D6",
         "U+A9F6", "U+AA56", "U+ABF6", "U+FF16", "U+104A6", "U+10D36", "U+1106C", "U+110F6",
         "U+1113C", "U+111D6", "U+112F6", "U+11456", "U+114D6", "U+11656", "U+116C6", "U+11736",
         "U+118E6", "U+11956", "U+11C56", "U+11D56", "U+11DA6", "U+16A66", "U+16AC6", "U+16B56",
         "U+1D7D4", "U+1D7DE", "U+1D7E8", "U+1D7F2", "U+1D7FC", "U+1E146", "U+1E2F6", "U+1E956",
         "U+1FBF6" },
       { "U+0667", "U+06F7", "U+07C7", "U+096D", "U+09ED", "U+0A6D", "U+0AED", "U+0B6D",
         "U+0BED", "U+0C6D", "U+0CED", "U+0D6D", "U+0DED", "U+0E57", "U+0ED7", "U+0F27",
         "U+1047", "U+1097", "U+17E7", "U+1817", "U+194D", "U+19D7", "U+1A87", "U+1A97",
         "U+1B57", "U+1BB7", "U+1C47", "U+1C57", "U+A627", "U+A8D7", "U+A907", "U+A9D7",
         "U+A9F7", "U+AA57", "U+ABF7", "U+FF17", "U+104A7", "U+10D37", "U+1106D", "U+110F7",
         "U+1113D", "U+111D7", "U+112F7", "U+11457", "U+114D7", "U+11657", "U+116C7", "U+11737",
         "U+118E7", "U+11957", "U+11C57", "U+11D57", "U+11DA7", "U+16A67", "U+16AC7", "U+16B57",
         "U+1D7D5", "U+1D7DF", "U+1D7E9", "U+1D7F3", "U+1D7FD", "U+1E147", "U+1E2F7", "U+1E957",
         "U+1FBF7" },
       { "U+0668", "U+06F8", "U+07C8", "U+096E", "U+09EE", "U+0A6E", "U+0AEE", "U+0B6E",
         "U+0BEE", "U+0C6E", "U+0CEE", "U+0D6E", "U+0DEE", "U+0E58", "U+0ED8", "U+0F28",
         "U+1048", "U+1098", "U+17E8", "U+1818", "U+194E", "U+19D8", "U+1A88", "U+1A98",
         "U+1B58", "U+1BB8", "U+1C48", "U+1C58", "U+A628", "U+A8D8", "U+A908", "U+A9D8",
         "U+A9F8", "U+AA58", "U+ABF8", "U+FF18", "U+104A8", "U+10D38", "U+1106E", "U+110F8",
         "U+1113E", "U+111D8", "U+112F8", "U+11458", "U+114D8", "U+11658", "U+116C8", "U+11738",
         "U+118E8", "U+11958", "U+11C58", "U+11D58", "U+11DA8", "U+16A68", "U+16AC8", "U+16B58",
         "U+1D7D6", "U+1D7E0", "U+1D7EA", "U+1D7F4", "U+1D7FE", "U+1E148", "U+1E2F8", "U+1E958",
         "U+1FBF8" },
       { "U+0669", "U+06F9", "U+07C9", "U+096F", "U+09EF", "U+0A6F", "U+0AEF", "U+0B6F",
         "U+0BEF", "U+0C6F", "U+0CEF", "U+0D6F", "U+0DEF", "U+0E59", "U+0ED9", "U+0F29",
         "U+1049", "U+1099", "U+17E9", "U+1819", "U+194F", "U+19D9", "U+1A89", "U+1A99",
         "U+1B59", "U+1BB9", "U+1C49", "U+1C59", "U+A629", "U+A8D9", "U+A909", "U+A9D9",
         "U+A9F9", "U+AA59", "U+ABF9", "U+FF19", "U+104A9", "U+10D39", "U+1106F", "U+110F9",
         "U+1113F", "U+111D9", "U+112F9", "U+11459", "U+114D9", "U+11659", "U+116C9", "U+11739",
         "U+118E9", "U+11959", "U+11C59", "U+11D59", "U+11DA9", "U+16A69", "U+16AC9", "U+16B59",
         "U+1D7D7", "U+1D7E1", "U+1D7EB", "U+1D7F5", "U+1D7FF", "U+1E149", "U+1E2F9", "U+1E959",
         "U+1FBF9" } >>

\* The value of a digit.
is_digit(c) == \E d \in 1..10 : DigitChars[d] = c \/ c \in DecimalChars[d]
digit(c) == (CHOOSE d \in 1..10 : DigitChars[d] = c \/ c \in DecimalChars[d]) - 1

\* A run of digits, single underscores allowed between two of them.
digitpart(s) ==
    /\ s # <<>>
    /\ \A k \in 1..Len(s) : is_digit(s[k]) \/ s[k] = "_"
    /\ is_digit(s[1]) /\ is_digit(s[Len(s)])
    /\ \A k \in 1..(Len(s) - 1) : ~(s[k] = "_" /\ s[k + 1] = "_")

\* The digits of a digitpart, its value and ten to a power.
only_digits(s) == SelectSeq(s, is_digit)

RECURSIVE digits_value(_)
digits_value(s) ==
    IF s = <<>> THEN 0
    ELSE 10 * digits_value(SubSeq(s, 1, Len(s) - 1)) + digit(s[Len(s)])

RECURSIVE pow10(_)
pow10(n) == IF n = 0 THEN 1 ELSE 10 * pow10(n - 1)

\* A string without its sign, and the sign.
unsigned(s) == IF s # <<>> /\ s[1] \in {"+", "-"} THEN Tail(s) ELSE s
sign(s) == IF s # <<>> /\ s[1] = "-" THEN -1 ELSE 1

\* int(str): [ok, i]. Optional sign and a digitpart between whitespace.
int_of_stripped(sgn, body) ==
    IF digitpart(body) THEN [ok |-> TRUE, i |-> sgn * digits_value(only_digits(body))]
    ELSE [ok |-> FALSE, i |-> 0]
int_of_signed(s) == int_of_stripped(sign(s), unsigned(s))
int_of_str(s) == int_of_signed(strip(s))

\* Infinity as a float (NaN is 0/0).
Inf(sgn) == [num |-> sgn, den |-> 0]

\* The letters of 'nan', 'inf' and 'infinity' and of the exponent, in lower case.
lower(c) ==
    IF c = "N" THEN "n" ELSE IF c = "A" THEN "a" ELSE IF c = "I" THEN "i"
    ELSE IF c = "F" THEN "f" ELSE IF c = "T" THEN "t" ELSE IF c = "Y" THEN "y"
    ELSE IF c = "E" THEN "e" ELSE c

\* A string at its first character c: how often c occurs, what is before
\* the first and what is after it.
cut_at(pos, s) ==
    [n |-> Cardinality(pos),
     head |-> IF pos = {} THEN s ELSE SubSeq(s, 1, (CHOOSE k \in pos : \A j \in pos : k <= j) - 1),
     tail |-> IF pos = {} THEN <<>>
              ELSE SubSeq(s, (CHOOSE k \in pos : \A j \in pos : k <= j) + 1, Len(s))]
cut(s, c) == cut_at({k \in 1..Len(s) : s[k] = c}, s)

\* The value of the digits ip, the fraction digits fp and the exponent e.
decimal(sgn, ip, fp, e) ==
    Frac(sgn * (digits_value(ip) * pow10(Len(fp)) + digits_value(fp))
             * (IF e > 0 THEN pow10(e) ELSE 1),
         pow10(Len(fp)) * (IF e < 0 THEN pow10(-e) ELSE 1))

\* The number of a mantissa m cut at '.', with the exponent part x (the
\* string cut at 'e'): digits on one side of the point at least, an exponent
\* with digits where there is an 'e'.
float_of_parts(sgn, m, x) ==
    IF /\ x.n <= 1 /\ m.n <= 1
       /\ m.head = <<>> \/ digitpart(m.head)
       /\ m.tail = <<>> \/ digitpart(m.tail)
       /\ ~(m.head = <<>> /\ m.tail = <<>>)
       /\ x.n = 1 => digitpart(unsigned(x.tail))
    THEN [ok |-> TRUE,
          f |-> decimal(sgn, only_digits(m.head), only_digits(m.tail),
                        sign(x.tail) * digits_value(only_digits(unsigned(x.tail))))]
    ELSE [ok |-> FALSE, f |-> NaN]
float_of_mantissa(sgn, x) == float_of_parts(sgn, cut(x.head, "."), x)

\* float(str): [ok, f]. Between whitespace an optional sign, then 'nan',
\* 'inf', 'infinity' (in any case) or digits with an optional fraction and
\* an optional exponent; the value is kept exact.
float_of_stripped(sgn, body) ==
    IF body = <<"n", "a", "n">> THEN [ok |-> TRUE, f |-> NaN]
    ELSE IF body \in {<<"i", "n", "f">>, <<"i", "n", "f", "i", "n", "i", "t", "y">>}
    THEN [ok |-> TRUE, f |-> Inf(sgn)]
    ELSE float_of_mantissa(sgn, cut(body, "e"))
lowered(s) == [k \in 1..Len(s) |-> lower(s[k])]
float_of_signed(s) == float_of_stripped(sign(s), lowered(unsigned(s)))
float_of_str(s) == float_of_signed(strip(s))

\* int(float): towards zero.
trunc(f) == IF f.num >= 0 THEN f.num \div f.den ELSE -((-f.num) \div f.den)

\* The element a parsed string gives: ValueError where it is no number.
parsed(r, val) == IF r.ok THEN [err |-> "", val |-> val] ELSE [err |-> "ValueError", val |-> 0]
parsed_int(r) == parsed(r, r.i)
parsed_float(r) == parsed(r, r.f)

\* One element of numpy.array(list, dtype): [err, val], err the class of
\* the exception ("" for none). For an integer variable int(element), for a
\* float variable float(element); None is nan as a float and no integer; a
\* string is parsed; a float that is nan or infinite is no integer.
scalar(v, dtype) ==
    LET ok(val) == [err |-> "", val |-> val]
        no(cls) == [err |-> cls, val |-> 0]
    IN  IF v.tag \in {"list", "tuple"} THEN no("ValueError")
        ELSE IF v.tag \notin {"int", "float", "str", "None"} THEN no("TypeError")
        ELSE IF dtype = "int"
        THEN (IF v.tag = "int" THEN ok(v.i)
              ELSE IF v.tag = "None" THEN no("TypeError")
              ELSE IF v.tag = "str" THEN parsed_int(int_of_str(v.s))
              ELSE IF v.f = NaN THEN no("ValueError")
              ELSE IF v.f.den = 0 THEN no("OverflowError")
              ELSE ok(trunc(v.f)))
        ELSE (IF v.tag = "int" THEN ok(Frac(v.i, 1))
              ELSE IF v.tag = "None" THEN ok(NaN)
              ELSE IF v.tag = "str" THEN parsed_float(float_of_str(v.s))
              ELSE ok(v.f))

\* The array of numpy.array(values, dtype) written to the variable, or the
\* exception of the first value that does not convert.
assign_array(file, path, cs) ==
    IF \E k \in 1..Len(cs) : cs[k].err # ""
    THEN [file |-> file,
          err |-> Raise(cs[CHOOSE k \in 1..Len(cs) :
                               /\ cs[k].err # ""
                               /\ \A j \in 1..(k - 1) : cs[j].err = ""].err,
                        Msg("could not convert"))]
    ELSE setall(file, path, [k \in 1..Len(cs) |-> cs[k].val], 1)

\* variable[:] = values for a Python list of values. A variable of strings
\* refuses it (a list is no array of strings, and the index is no integer);
\* a variable of numbers takes numpy.array(values, dtype), which fails
\* before anything is written: on a list or tuple among the values (no
\* array of numbers has that shape), else on the first value that does not convert.
assign_list(file, path, values) ==
    IF path \notin DOMAIN file.vars
    THEN [file |-> file, err |-> Raise("IndexError", Msg("not found"))]
    ELSE IF file.vars[path].dtype = "str"
    THEN [file |-> file,
          err |-> Raise("IndexError",
                        Msg("data can only be assigned to VLEN variables using integer indices"))]
    ELSE IF \E k \in 1..Len(values) : values[k].tag \in {"list", "tuple"}
    THEN [file |-> file, err |-> Raise("ValueError", Msg("could not convert"))]
    ELSE assign_array(file, path,
                      [k \in 1..Len(values) |-> scalar(values[k], file.vars[path].dtype)])

\* One call on the output file: the file after it and the error it raised.
\* The groups and the variables of one group share their names (dimensions
\* have names of their own, and share them among themselves): a name in use
\* is refused, except that createGroup of a group that exists returns that
\* group.
apply_op(file, o) ==
    IF o.op = "raise" THEN [file |-> file, err |-> o.val]
    ELSE IF o.op = "createDimension"
    THEN (IF o.name \in DOMAIN file.dims
          THEN [file |-> file, err |-> Raise("RuntimeError", Msg("name in use"))]
          ELSE [file |-> [file EXCEPT !.dims = (o.name :> 0) @@ file.dims], err |-> None])
    ELSE IF o.op = "createGroup"
    THEN (IF o.path \notin file.groups
          THEN [file |-> file, err |-> Raise("IndexError", Msg("not found"))]
          ELSE IF Append(o.path, o.name) \in file.groups
          THEN [file |-> file, err |-> None]
          ELSE IF Append(o.path, o.name) \in DOMAIN file.vars
          THEN [file |-> file, err |-> Raise("RuntimeError", Msg("name in use"))]
          ELSE [file |-> [file EXCEPT !.groups = file.groups \cup {Append(o.path, o.name)}],
                err |-> None])
    ELSE IF o.op = "createVariable"
    THEN (IF o.path \notin file.groups
          THEN [file |-> file, err |-> Raise("IndexError", Msg("not found"))]
          ELSE IF Append(o.path, o.name) \in DOMAIN file.vars \cup file.groups
          THEN [file |-> file, err |-> Raise("RuntimeError", Msg("name in use"))]
          ELSE [file |-> [file EXCEPT !.vars = (Append(o.path, o.name) :>
                                                  [dims |-> o.dims, dtype |-> o.val,
                                                   cells |-> <<>>])
                                               @@ file.vars],
                err |-> None])
    ELSE IF o.op = "setitem" THEN setitem(file, o.path, o.idx, o.val)
    ELSE IF o.op = "setlist" THEN assign_list(file, o.path, o.val)
    ELSE setall(file, o.path, o.val, 1)

\* The calls in order, up to the first that raises.
RECURSIVE apply_ops(_, _, _)
apply_ops(file, ops, k) ==
    IF k > Len(ops) THEN [file |-> file, err |-> None]
    ELSE LET r == apply_op(file, ops[k])
         IN  IF r.err # None THEN r ELSE apply_ops(r.file, ops, k + 1)

\* The dimensions and variables every output file starts with.
base_ops(n) ==
    << CreateDimension(s_run_id),
       CreateDimension(s_time),
       CreateVariable(<<>>, s_run_id, "int", <<s_run_id>>),
       CreateVariable(<<>>, s_time, "float", <<s_run_id, s_time>>),
       SetAll(<<s_run_id>>, [i \in 1..n |-> i - 1]) >>

\* Mutation: every per-measure array is indexed by 'time'.
measure_dims_time(time_dim) == <<s_run_id, s_time>>

\* The dimensions of a per-measure array: ('run_id', 'time') under
\* 'global_quantities', ('run_id', 'error_time') under 'errors'.
measure_dims(time_dim) == <<s_run_id, time_dim>>

\* Mutation: the values are written from the first slot on.
idx0_from_start(num_times, num_data) == 0

\* "Fill to the end": the first slot of a series of num_data values on a run
\* with num_times distinct times.
idx0(num_times, num_data) == num_times - num_data

\* for k, datum in enumerate(data): variable[i, k+idx0] = datum
fill_ops(path, i, data, num_times) ==
    [k \in 1..Len(data) |->
        SetItem(path, <<i, (k - 1) + idx0(num_times, Len(data))>>, data[k])]

\* The calls of gungho_mass mode.
gungho_ops(data_frame_list, ties) ==
    LET n == Len(data_frame_list)
        times(i) == Unique(Times(data_frame_list[i]))
        time_ops == Flatten([i \in 1..n |->
                        [j \in 1..Len(times(i)) |->
                            SetItem(<<s_time>>, <<i - 1, j - 1>>, times(i)[j])]])
        unique_species == Unique(SpeciesOf(data_frame_list[1]))
        unique_measures == Unique(Stages(data_frame_list[1]))
        data(i, s, species, measure) ==
            Masses(SortByTime(SelectSeq(data_frame_list[i],
                                  LAMBDA r : r.species = species /\ r.timestage = measure),
                              tie_order(ties, i + s)))
        measure_ops(s, species, measure) ==
            <<CreateVariable(<<species, s_global_quantities>>, measure, "float",
                             measure_dims(s_time))>>
            \o Flatten([i \in 1..n |->
                   fill_ops(<<species, s_global_quantities, measure>>, i - 1,
                            data(i, s, species, measure), Len(times(i)))])
        species_ops(s, species) ==
            << CreateGroup(<<>>, species),
               CreateGroup(<<species>>, s_errors),
               CreateGroup(<<species>>, s_global_quantities) >>
            \o Flatten([m \in 1..Len(unique_measures) |->
                   measure_ops(s, species, unique_measures[m])])
    IN  IF n = 0 THEN <<RaiseOp("IndexError", "list index out of range")>>
        ELSE time_ops \o Flatten([s \in 1..Len(unique_species) |->
                                species_ops(s, unique_species[s])])

\* createVariable(param_key, type(param_value[0]), ('run_id',)) and the
\* assignment of the list of values. A first value that is an integer, a
\* float or a string makes a variable of that type, any other type is no
\* data type of the file.
param_ops(param) ==
    IF param[2].v = <<>> THEN <<RaiseOp("IndexError", "list index out of range")>>
    ELSE IF param[2].v[1].tag \notin {"int", "float", "str"}
    THEN <<RaiseOp("TypeError", "illegal primitive data type")>>
    ELSE << CreateVariable(<<>>, param[1], param[2].v[1].tag, <<s_run_id>>),
            SetList(<<param[1]>>, param[2].v) >>

\* Mutation: groups and arrays are created while processing every run.
first_run_always(i) == TRUE

\* if i == 0: groups and arrays are created "for the first time".
first_run(i) == i = 0

\* The calls of transport_stats mode for run i (from 0) on one of the two
\* halves of its table, stored under `category` along the dimension `time_dim`.
category_ops(i, data, category, time_dim, create_category_first, ties) ==
    LET unique_variables == Unique(VariablesOf(data))
        times == Unique(Times(SortByTime(data, tie_order(ties, i))))
        of_variable(variable) == SelectSeq(data, LAMBDA r : r.variable = variable)
        measure_ops(v, variable, measure) ==
            (IF first_run(i)
             THEN <<CreateVariable(<<variable, category>>, measure, "float",
                                   measure_dims(time_dim))>>
             ELSE <<>>)
            \o fill_ops(<<variable, category, measure>>, i,
                        ValuesOf(SortByTime(SelectSeq(data,
                                     LAMBDA r : r.variable = variable /\ r.measure_name = measure),
                                 tie_order(ties, i + v))),
                        Len(Unique(Times(data))))
        variable_ops(v, variable) ==
            (IF first_run(i) /\ ~create_category_first
             THEN <<CreateGroup(<<variable>>, category)>> ELSE <<>>)
            \o Flatten([m \in 1..Len(Unique(MeasuresOf(of_variable(variable)))) |->
                   measure_ops(v, variable, Unique(MeasuresOf(of_variable(variable)))[m])])
    IN  (IF first_run(i) /\ create_category_first
         THEN << CreateDimension(time_dim),
                 CreateVariable(<<>>, time_dim, "float", <<s_run_id, time_dim>>) >>
              \o [v \in 1..Len(unique_variables) |->
                    CreateGroup(<<unique_variables[v]>>, category)]
         ELSE <<>>)
        \o [j \in 1..Len(times) |-> SetItem(<<time_dim>>, <<i, j - 1>>, times[j])]
        \o Flatten([v \in 1..Len(unique_variables) |-> variable_ops(v, unique_variables[v])])

\* The calls of transport_stats mode.
transport_ops(data_frame_list, run_params, ties) ==
    LET n == Len(data_frame_list)
        unique_variables == Unique(VariablesOf(data_frame_list[1]))
        error_data(i) == SelectSeq(data_frame_list[i],
                                   LAMBDA r : r.measure_name \in all_errors)
        quant_data(i) == SelectSeq(data_frame_list[i],
                                   LAMBDA r : r.measure_name \notin all_errors)
    IN  IF n = 0 THEN <<RaiseOp("IndexError", "list index out of range")>>
        ELSE [v \in 1..Len(unique_variables) |-> CreateGroup(<<>>, unique_variables[v])]
             \o Flatten([p \in 1..Len(run_params) |-> param_ops(run_params[p])])
             \o Flatten([i \in 1..n |->
                    category_ops(i - 1, error_data(i), s_errors, s_error_time, TRUE, ties)
                    \o category_ops(i - 1, quant_data(i), s_global_quantities, s_time, FALSE, ties)])

\* convert_global_output: returns what it returned or raised, its events,
\* the output file it left and the data_frame_list it had built. `ties` is
\* no argument of the routine: it is what its sorts do with rows of one time.
convert_global_output(files, old_output, source_dirs, mode, dt, run_params, ties) ==
    LET checked == check_run_params(source_dirs, run_params)
        rejected(r) == [ret |-> r, events |-> <<>>, output |-> old_output,
                        data_frame_list |-> <<>>]
    IN  IF IsError(checked) THEN rejected(checked)
        ELSE IF ~mode_ok(mode)
        THEN rejected(Raise("ValueError",
                 Msg("Converter mode should be \"transport_stats\" or \"gungho\"")))
        ELSE IF mode \notin {PyStr("transport_stats"), PyStr("gungho_mass")}
        THEN rejected(Raise("NotImplementedError", Msg("mode not implemented")))
        ELSE
        LET logs_read == read_logs(files, checked.value.source_dirs, mode, dt, 1, <<>>, <<>>)
        IN  IF IsError(logs_read.ret)
            THEN [ret |-> logs_read.ret, events |-> logs_read.events,
                  output |-> old_output, data_frame_list |-> logs_read.data_frame_list]
            ELSE
            LET dfl == logs_read.data_frame_list
                ops == base_ops(Len(dfl))
                       \o (IF mode = PyStr("gungho_mass") THEN gungho_ops(dfl, ties)
                           ELSE transport_ops(dfl, checked.value.run_params, ties))
                written == apply_ops(NewFile, ops, 1)
            IN  [ret |-> IF written.err = None THEN Return(None) ELSE written.err,
                 events |-> Append(logs_read.events,
                                   [ev |-> "create", name |-> "global_output.nc"]),
                 output |-> written.file,
                 data_frame_list |-> dfl]

(***************************************************************************)
(* SpecConv: calls of convert_global_output on the logs of two source      *)
(* directories.                                                            *)
(***************************************************************************)
\* The largest number of timesteps of a log.
MaxSteps == 5

\* The logs of gungho_mass mode; the last two were not made by GunghoLog:
\* one has a row of another stage, one a row whose mass field is no number
\* (such a row holds the text in mass_str and has no mass). (See GunghoLogs.)
\*
\* A gungho_mass log: for every timestep and every species of the list a
\* mass after the timestep and, where `before` says so, one before it. With
\* `late` the last species is logged at the last timestep only.
GunghoLog(species, steps, before, late) ==
    LET row(t, s, point1) ==
            [species_str |-> species[s], timestage1 |-> point1,
             timestage2 |-> s_timestep, timestep |-> t,
             mass |-> s + (IF t = 1 THEN 0 ELSE 10 * (t + 1))
                        + (IF point1 = s_Before THEN 5 ELSE 0)]
        logged(t, s) == ~late \/ s < Len(species) \/ t = steps
        before_at(t) == \/ before = "every"
                        \/ (before \in {"first", "step0"} /\ t = 1)
        of_species(t, s) ==
            IF ~logged(t, s) THEN <<>>
            ELSE (IF before_at(t) THEN <<row(t, s, s_Before)>> ELSE <<>>)
                 \o <<row(t, s, s_After)>>
        of_step(t) == Flatten([s \in 1..Len(species) |-> of_species(t, s)])
    IN  [rows |-> (IF before = "step0"
                   THEN [s \in 1..Len(species) |-> row(0, s, s_After)] ELSE <<>>)
                  \o Flatten([t \in 1..steps |-> of_step(t)])]

GunghoLogs ==
    { GunghoLog(<<s_species_1>>, MaxSteps, "none", FALSE),
      GunghoLog(<<s_species_1>>, MaxSteps - 2, "none", FALSE),
      GunghoLog(<<s_species_1, s_species_2, s_species_3>>, 1, "none", FALSE),
      GunghoLog(<<s_species_1, s_species_2, s_species_3>>, 2, "first", FALSE),
      GunghoLog(<<s_species_1, s_species_10>>, 1, "none", FALSE),
      GunghoLog(<<s_species_1, s_species_2>>, 2, "every", FALSE),
      GunghoLog(<<s_species_1, s_species_2>>, 1, "step0", FALSE),
      GunghoLog(<<s_species_1, s_species_2>>, MaxSteps - 2, "none", TRUE),
      [rows |-> GunghoLog(<<s_species_1>>, 2, "none", FALSE).rows
                \o << [species_str |-> s_species_1, timestage1 |-> s_After,
                       timestage2 |-> s_physics, timestep |-> 2, mass |-> 7] >>],
      [rows |-> << [species_str |-> s_species_1, timestage1 |-> s_After,
                    timestage2 |-> s_timestep, timestep |-> 1, mass |-> 1],
                   [species_str |-> s_species_2, timestage1 |-> s_After,
                    timestage2 |-> s_timestep, timestep |-> 1,
                    mass_str |-> <<"*", "*", "*">>] >>] }

\* A transport_stats log: at every time every variable's measures that are
\* no error metric, and at the last time its error metrics. With `late` the
\* last measure of the list is logged at the last time only.
TransportLog(variables, steps, measures, late) ==
    LET logged(t, m) ==
            IF measures[m] \in all_errors \/ (late /\ m = Len(measures))
            THEN t = steps ELSE TRUE
        of_variable(t, v) ==
            LET ms == SelectSeq([m \in 1..Len(measures) |-> m], LAMBDA m : logged(t, m))
            IN  [k \in 1..Len(ms) |->
                    [time |-> t, measure_name |-> measures[ms[k]],
                     variable |-> variables[v],
                     measure_value |-> 100 * v + 10 * ms[k] + t]]
    IN  [rows |-> Flatten([t \in 1..steps |->
                     Flatten([v \in 1..Len(variables) |-> of_variable(t, v)])])]

TransportLogs ==
    { TransportLog(<<s_field>>, MaxSteps, <<s_L2_initial, s_some_custom_metric>>, FALSE),
      TransportLog(<<s_field>>, MaxSteps - 2, <<s_L2_initial, s_some_custom_metric>>, FALSE),
      TransportLog(<<s_field, s_theta>>, 2,
                   <<s_L2_initial, s_Dissipation, s_some_custom_metric, s_Mass>>, TRUE),
      TransportLog(<<s_field>>, 1, <<s_some_custom_metric>>, FALSE),
      TransportLog(<<s_theta>>, 2, <<s_Rel_L2_error, s_Mass>>, FALSE),
      TransportLog(<<s_time>>, 1, <<s_Mass>>, FALSE),
      TransportLog(<<s_field>>, 1,
                   <<s_Min_initial, s_Max_initial, s_L2_initial, s_L2_final,
                     s_Rel_L2_error, s_Dissipation, s_Dispersion,
                     s_some_custom_metric, s_Mass>>, FALSE) }

\* The source directories, and a global_output.nc left by an earlier run.
SourceDirs == {"A", "B"}
OldFile == [dims |-> (s_run_id :> 1), groups |-> {<<>>}, vars |-> <<>>]

InitConv ==
    /\ \E mode \in {"gungho_mass", "transport_stats"} :
          \E files \in [SourceDirs ->
                           {None} \cup (IF mode = "gungho_mass" THEN GunghoLogs
                                        ELSE TransportLogs)] :
              logs = [mode |-> mode, files |-> files]
    /\ output_file \in {None, OldFile}
    /\ data_frames = <<>>
    /\ field_dataset = None
    /\ height_dataset = None
    /\ cube = None
    /\ call = NoCall
    /\ ret = Return(<<>>)
    /\ events = <<>>

\* The arguments a caller may pass.
SourceDirArgs == { PyStr("A"), PyList(<<"A", "B">>), PyList(<<"B", "A">>), PyList(<<>>) }
ModeArgs == { PyStr(logs.mode), PyStr("gungho") }
DtArgs == IF logs.mode = "gungho_mass" THEN {None, PyInt(2)} ELSE {None}
\* (gungho_mass mode does not use run_params after the checks: a log of that
\* mode is called with fewer of them.)
RunParamArgs ==
    IF logs.mode = "gungho_mass"
    THEN { None, PyInt(5), PyDict(<< <<s_param_a, PyList(<<PyInt(1)>>)>> >>) }
    ELSE
    { None,
      PyInt(5),
      PyDict(<<>>),
      PyDict(<< <<s_param_a, PyList(<<PyInt(1), PyInt(2)>>)>> >>),
      PyDict(<< <<s_param_a, PyList(<<PyInt(1)>>)>> >>),
      PyDict(<< <<s_param_a, PyList(<<PyStr(<<"x">>), PyStr(<<"y">>)>>)>> >>),
      PyDict(<< <<s_param_a, PyList(<<PyFloat(Frac(1, 2)), PyFloat(Frac(1, 1))>>)>> >>),
      PyDict(<< <<s_param_a, PyList(<<PyFloat(Frac(1, 2)), None>>)>> >>),
      PyDict(<< <<s_param_a, PyList(<<PyFloat(Frac(1, 2)), PyStr(<<"-", "1", ".", "5", "e", "1">>)>>)>> >>),
      PyDict(<< <<s_param_a, PyList(<<PyInt(1), None>>)>> >>),
      PyDict(<< <<s_param_a, PyList(<<PyInt(1), PyStr(<<"\f", "U+0662", "_", "2", "\r", "U+00A0">>)>>)>> >>),
      PyDict(<< <<s_param_a, PyList(<<PyInt(1), PyTuple(<<PyInt(2), PyInt(3)>>)>>)>> >>),
      PyDict(<< <<s_param_a, PyList(<<PyInt(1), PyStr(<<"y">>)>>)>> >>),
      PyDict(<< <<s_param_a, PyList(<<PyInt(1), PyFloat(Frac(5, 2))>>)>> >>),
      PyDict(<< <<s_theta, PyList(<<PyInt(1), PyInt(2)>>)>> >>),
      PyDict(<< <<s_param_a, PyInt(7)>> >>),
      PyDict(<< <<s_param_a, PyInt(7)>>, <<s_param_b, PyList(<<PyInt(1)>>)>> >>),
      PyDict(<< <<s_param_a, PyList(<<PyInt(1), PyInt(2)>>)>>,
                <<s_param_b, PyList(<<PyInt(1)>>)>> >>) }

\* What the sorts of one conversion may do with rows of one time: each of
\* two sorts in turn keeps two such rows in their order or swaps them.
TieOrders == { <<a, b>> : a, b \in {<<1, 2>>, <<2, 1>>} }

\* A table has two rows of one time in one of the series that are sorted.
tied(table, mode) ==
    \E j, k \in 1..Len(table) :
        /\ j < k
        /\ table[j].time = table[k].time
        /\ IF mode = PyStr("gungho_mass")
           THEN /\ table[j].species = table[k].species
                /\ table[j].timestage = table[k].timestage
           ELSE /\ table[j].variable = table[k].variable
                /\ table[j].measure_name = table[k].measure_name

\* The outcomes of the sorts of a call: where no log gives a table with such
\* rows every order of ties gives the same, and one stands for all. (The
\* rows of species 'total' are one per time and stage; a log that cannot be
\* read or transformed gives no table.)
sort_outcomes(files, source_dirs, mode, dt) ==
    LET dirs == IF source_dirs.tag = "list" THEN source_dirs.v ELSE <<source_dirs.s>>
        rows_of(log) ==
            IF log = None THEN <<>>
            ELSE IF mode # PyStr("gungho_mass") THEN log.rows
            ELSE IF \E k \in 1..Len(log.rows) : "mass" \notin DOMAIN log.rows[k] THEN <<>>
            ELSE [k \in 1..Len(log.rows) |-> relabel(log.rows[k], dt)]
    IN  IF /\ mode_ok(mode)
           /\ \E d \in 1..Len(dirs) : \E table \in {rows_of(files[dirs[d]])} :
                 tied(table, mode)
        THEN TieOrders
        ELSE {<< <<1, 2>>, <<1, 2>> >>}

CallConvert ==
    /\ call = NoCall
    /\ \E source_dirs \in SourceDirArgs, mode \in ModeArgs, dt \in DtArgs,
          run_params \in RunParamArgs :
         \E ties \in sort_outcomes(logs.files, source_dirs, mode, dt) :
           LET r == convert_global_output(logs.files, output_file, source_dirs, mode,
                                          dt, run_params, ties)
           IN  /\ call' = [fn |-> "convert_global_output", source_dirs |-> source_dirs,
                           mode |-> mode, dt |-> dt, run_params |-> run_params]
               /\ ret' = r.ret
               /\ events' = r.events
               /\ output_file' = r.output
               /\ data_frames' = r.data_frame_list
               /\ UNCHANGED <<field_dataset, height_dataset, cube, logs>>

NextConv == CallConvert

SpecConv == InitConv /\ [][NextConv]_vars

(***************************************************************************)
(* Properties                                                              *)
(***************************************************************************)
FieldVar == field_dataset.variables[s_field]
FieldDimsOf == FieldVar.dimensions

\* A selector that is omitted or lies inside a dimension of size n; a
\* negative selector counts from the end of the dimension.
InRange(sel, n) == sel = None \/ (sel.i >= -n /\ sel.i < n)

\* The position, from 1, that an integer selector selects in a dimension of
\* size n.
Position(sel, n) == (IF sel.i < 0 THEN sel.i + n ELSE sel.i) + 1

LookupEvent(name) == [ev |-> "lookup", name |-> name]

\* C1: extract_lfric_field returns the slice its declared shape selects:
\* field[time_idx, level, :] for three dimensions, field[time_idx, :] for two
\* dimensions the first of which is 'time', field[level, :] for any other two
\* dimensions, and the whole array for one dimension whatever the selectors;
\* an omitted selector is the full extent.
C1_FieldSlice ==
    call.fn = "extract_lfric_field" =>
        LET d == FieldVar.data
            shape == FieldVar.shape
            t == call.time_idx
            l == call.level
            \* the number of dimensions a selector leaves
            Kept(sel) == IF sel = None THEN 1 ELSE 0
        IN  /\ (Len(FieldDimsOf) = 3 /\ InRange(t, shape[1]) /\ InRange(l, shape[2])) =>
                /\ ret.kind = "return"
                /\ ret.value.ndim = Kept(t) + Kept(l) + 1
                /\ ret.value.a =
                     IF t # None /\ l # None
                     THEN d[Position(t, shape[1])][Position(l, shape[2])]
                     ELSE IF t # None THEN d[Position(t, shape[1])]
                     ELSE IF l # None
                     THEN [i \in 1..shape[1] |-> d[i][Position(l, shape[2])]]
                     ELSE d
            /\ (Len(FieldDimsOf) = 2 /\ FieldDimsOf[1] = s_time /\ InRange(t, shape[1])) =>
                /\ ret.kind = "return"
                /\ ret.value.ndim = Kept(t) + 1
                /\ ret.value.a = IF t # None THEN d[Position(t, shape[1])] ELSE d
            /\ (Len(FieldDimsOf) = 2 /\ FieldDimsOf[1] # s_time /\ InRange(l, shape[1])) =>
                /\ ret.kind = "return"
                /\ ret.value.ndim = Kept(l) + 1
                /\ ret.value.a = IF l # None THEN d[Position(l, shape[1])] ELSE d
            /\ Len(FieldDimsOf) = 1 =>
                /\ ret.kind = "return"
                /\ ret.value.ndim = 1
                /\ ret.value.a = d

\* A (time, cell) field read at the last time index with a level passed too:
\* the level is ignored and the row of that time index is returned.
C1_Witness ==
    /\ call.fn = "extract_lfric_field"
    /\ FieldDimsOf = <<s_time, s_nMesh2d_face>>
    /\ call.time_idx = PyInt(NT - 1)
    /\ call.level = PyInt(0)
    /\ ret.kind = "return"
    /\ ret.value.a = FieldVar.data[NT]

\* The same field read with time_idx = -1: the row of the last time index.
C1_WitnessFromEnd ==
    /\ call.fn = "extract_lfric_field"
    /\ FieldDimsOf = <<s_time, s_nMesh2d_face>>
    /\ call.time_idx = PyInt(-1)
    /\ ret.kind = "return"
    /\ ret.value.a = FieldVar.data[NT]
    /\ ret.value.a # FieldVar.data[1]

\* C2: for a field whose number of dimensions is none of 1, 2, 3,
\* extract_lfric_field fails with a shape error whose message names the field
\* and the number of dimensions found.
C2_ShapeError ==
    (call.fn = "extract_lfric_field" /\ Len(FieldDimsOf) \notin {1, 2, 3}) =>
        /\ ret.kind \in {"RuntimeError", "ShapeError"}
        /\ ret.msg.field = call.field_name
        /\ ret.msg.count = Len(FieldDimsOf)

\* C3: extract_lfric_coords looks up the variables named by the field's last
\* dimension name without its first character, followed by '_x' and '_y'
\* ('Mesh2d_face_x' and 'Mesh2d_face_y' for 'nMesh2d_face'); it returns their
\* data when both exist and fails with the lookup error when one is absent.
C3_CoordNames ==
    (call.fn = "extract_lfric_coords" /\ Len(FieldDimsOf) >= 1) =>
        LET root == FieldDimsOf[Len(FieldDimsOf)]
            IsDerived(name, suffix) ==
                /\ Len(name) = Len(root) + 1
                /\ \A i \in 1..(Len(root) - 1) : name[i] = root[i + 1]
                /\ name[Len(root)] = "_"
                /\ name[Len(root) + 1] = suffix
            Present(name) == name \in DOMAIN field_dataset.variables
        IN  /\ Len(events) \in {1, 2}
            /\ \A k \in 1..Len(events) : events[k].ev = "lookup"
            /\ IsDerived(events[1].name, "x")
            /\ Len(events) = 2 => IsDerived(events[2].name, "y")
            /\ root = s_nMesh2d_face =>
                    \/ events = <<LookupEvent(s_Mesh2d_face_x), LookupEvent(s_Mesh2d_face_y)>>
                    \/ /\ events = <<LookupEvent(s_Mesh2d_face_x)>>
                       /\ ~Present(s_Mesh2d_face_x)
            /\ ret.kind = "return" <=>
                    (Len(events) = 2 /\ \A k \in 1..2 : Present(events[k].name))
            /\ ret.kind = "return" =>
                    /\ ret.value.X = field_dataset.variables[events[1].name].data
                    /\ ret.value.Y = field_dataset.variables[events[2].name].data
            /\ ret.kind # "return" =>
                    /\ ret.kind = "IndexError"
                    /\ ret.msg.field = events[Len(events)].name
                    /\ ~Present(events[Len(events)].name)

\* A field on 'nMesh2d_face' whose two coordinate variables were read.
C3_Witness ==
    /\ call.fn = "extract_lfric_coords"
    /\ Len(FieldDimsOf) = 3
    /\ FieldDimsOf[3] = s_nMesh2d_face
    /\ events = <<LookupEvent(s_Mesh2d_face_x), LookupEvent(s_Mesh2d_face_y)>>
    /\ ret.kind = "return"
    /\ ret.value.X = field_dataset.variables[s_Mesh2d_face_x].data

\* C4: extract_lfric_heights selects 'height_w3' for a field on
\* (.., 'half_levels', 'nMesh2d_face'), 'height_wth' for a field on
\* (.., 'full_levels', 'nMesh2d_face'), and for every other field, one with
\* fewer than three dimensions included, fails with NotImplementedError.
C4_HeightSelection ==
    call.fn = "extract_lfric_heights" =>
        IF Len(FieldDimsOf) >= 3 /\ FieldDimsOf[2] = s_half_levels
                                 /\ FieldDimsOf[3] = s_nMesh2d_face
        THEN events = <<LookupEvent(s_height_w3)>>
        ELSE IF Len(FieldDimsOf) >= 3 /\ FieldDimsOf[2] = s_full_levels
                                      /\ FieldDimsOf[3] = s_nMesh2d_face
        THEN events = <<LookupEvent(s_height_wth)>>
        ELSE ret.kind = "NotImplementedError" /\ events = <<>>

(***************************************************************************)
(* Properties of extract_lfric_vertical_slice (under SpecSlice)            *)
(***************************************************************************)
SliceCall == call.fn = "extract_lfric_vertical_slice"
SliceReturned == SliceCall /\ ret.kind = "return"

\* The levels of a returned slice, in the order of the output columns.
OutLevels ==
    IF call.levels = None
    THEN [k \in 1..Len(ret.value.field_data[1]) |-> k - 1]
    ELSE call.levels.v

\* The mesh's coordinates along the slice direction and across it.
Along ==
    IF call.slice_along \in {"x", "lon"} THEN field_dataset.variables[s_Mesh2d_face_x].data
    ELSE IF call.slice_along \in {"y", "lat"} THEN field_dataset.variables[s_Mesh2d_face_y].data
    ELSE IF call.slice_along = "alpha" THEN cube.alpha
    ELSE cube.beta
Across ==
    IF call.slice_along \in {"x", "lon"} THEN field_dataset.variables[s_Mesh2d_face_y].data
    ELSE IF call.slice_along \in {"y", "lat"} THEN field_dataset.variables[s_Mesh2d_face_x].data
    ELSE IF call.slice_along = "alpha" THEN cube.beta
    ELSE cube.alpha

\* Mesh point c lies in the requested window (and on the requested panel).
InWindow(c) ==
    /\ Abs(Along[c] - call.slice_at) < call.tolerance
    /\ (call.slice_along \in {"alpha", "beta"} =>
            (call.panel # None /\ cube.panel[c] = call.panel.i))
Window == SelectSeq([c \in 1..NC |-> c], InWindow)

\* The field's value at the requested time, a level and a mesh point.
FieldAt(level, c) ==
    IF Len(FieldDimsOf) = 3
    THEN FieldVar.data[Position(call.time_idx, FieldVar.shape[1])][level + 1][c]
    ELSE IF Len(FieldDimsOf) = 2 /\ FieldDimsOf[1] = s_time
    THEN FieldVar.data[Position(call.time_idx, FieldVar.shape[1])][c]
    ELSE IF Len(FieldDimsOf) = 2 THEN FieldVar.data[level + 1][c]
    ELSE FieldVar.data[c]

\* The height variable of the field, at its first time sample.
HeightVarOf ==
    height_dataset.variables[IF FieldDimsOf[2] = s_half_levels
                             THEN s_height_w3 ELSE s_height_wth]
HeightAtTime0 ==
    IF Len(HeightVarOf.dimensions) = 3 THEN HeightVarOf.data[1] ELSE HeightVarOf.data

\* C5: extract_lfric_heights returns height[level, :] for a 2-dimension height
\* variable and height[0, level, :] for a 3-dimension one and fails for any
\* other number of dimensions; the heights extract_lfric_vertical_slice
\* returns are those of the first time sample whatever time_idx is.
C5_HeightsFirstSample ==
    /\ (call.fn = "extract_lfric_heights" /\ events # <<>>) =>
          LET hvar == height_dataset.variables[events[1].name]
              l == call.level
          IN  /\ (Len(hvar.dimensions) = 2 /\ InRange(l, hvar.shape[1])) =>
                  /\ ret.kind = "return"
                  /\ ret.value.a = IF l = None THEN hvar.data
                                    ELSE hvar.data[Position(l, hvar.shape[1])]
              /\ (Len(hvar.dimensions) = 3 /\ InRange(l, hvar.shape[2])) =>
                  /\ ret.kind = "return"
                  /\ ret.value.a = IF l = None THEN hvar.data[1]
                                    ELSE hvar.data[1][Position(l, hvar.shape[2])]
              /\ Len(hvar.dimensions) \notin {2, 3} => ret.kind = "RuntimeError"
    /\ (SliceReturned /\ height_dataset # None) =>
          \A r \in 1..Len(ret.value.coords_Z) : \A k \in 1..Len(OutLevels) :
              \E c \in 1..NC :
                  /\ ret.value.field_data[r][k] = FieldAt(OutLevels[k], c)
                  /\ ret.value.coords_Z[r][k] = HeightAtTime0[OutLevels[k] + 1][c]

\* A slice at the last time index with time-varying heights: the heights
\* returned are those of time sample 0.
C5_Witness ==
    /\ SliceReturned
    /\ height_dataset # None
    /\ Len(HeightVarOf.dimensions) = 3
    /\ call.time_idx = PyInt(NT - 1)
    /\ \E c \in 1..NC :
          /\ ret.value.field_data[1][1] = FieldAt(OutLevels[1], c)
          /\ ret.value.coords_Z[1][1] = HeightVarOf.data[1][OutLevels[1] + 1][c]
          /\ ret.value.coords_Z[1][1] # HeightVarOf.data[NT][OutLevels[1] + 1][c]

\* C6: in every returned slice the rows of each level are exactly the mesh
\* points whose coordinate along the slice direction is strictly within
\* tolerance of slice_at and, for 'alpha' and 'beta', whose panel id is the
\* requested panel, in mesh order.
C6_RowsAreWindow ==
    SliceReturned =>
        /\ Len(ret.value.field_data) = Len(Window)
        /\ Len(ret.value.coords_Y) = Len(Window)
        /\ \A k \in 1..Len(OutLevels) : \A r \in 1..Len(Window) :
              /\ ret.value.field_data[r][k] = FieldAt(OutLevels[k], Window[r])
              /\ ret.value.coords_Y[r][k] = Along[Window[r]]

\* A returned slice along alpha that leaves out a point on the boundary of
\* the window and a point of another panel, and keeps a point.
C6_Witness ==
    /\ SliceReturned
    /\ call.slice_along = "alpha"
    /\ Len(ret.value.field_data) = Len(Window)
    /\ Len(Window) >= 1
    /\ \E c \in 1..NC : Abs(Along[c] - call.slice_at) = call.tolerance
    /\ \E c \in 1..NC : /\ Abs(Along[c] - call.slice_at) < call.tolerance
                         /\ cube.panel[c] # call.panel.i

\* The inputs with which the call gets as far as filtering the first level.
ReachesFilter ==
    /\ SliceCall
    /\ call.slice_along \in SliceCoords
    /\ call.slice_along \in {"alpha", "beta"} => call.panel # None
    /\ FieldDimsOf \in { <<s_time, s_half_levels, s_nMesh2d_face>>,
                          <<s_time, s_full_levels, s_nMesh2d_face>> }
    /\ call.time_idx # None
    /\ call.levels # [tag |-> "list", v |-> <<>>]
    /\ height_dataset # None => Len(HeightVarOf.dimensions) \in {2, 3}

IsWarning(e) == e.ev = "warning"

\* C7: when no point matches the request, extract_lfric_vertical_slice emits
\* the warning and then raises NotImplementedError; a call that warned never
\* returns arrays.
C7_NoMatchIsFatal ==
    /\ (ReachesFilter /\ Window = <<>>) =>
          /\ ret.kind = "NotImplementedError"
          /\ Len(events) >= 1
          /\ IsWarning(events[Len(events)])
    /\ (SliceCall /\ Window = <<>>) => ret.kind # "return"
    /\ (SliceCall /\ \E k \in 1..Len(events) : IsWarning(events[k])) =>
          /\ ret.kind = "NotImplementedError"
          /\ IsWarning(events[Len(events)])
          /\ Cardinality({k \in 1..Len(events) : IsWarning(events[k])}) = 1

\* A request no mesh point matches: the warning, then NotImplementedError.
C7_Witness ==
    /\ ReachesFilter
    /\ Window = <<>>
    /\ ret.kind = "NotImplementedError"
    /\ events[Len(events)] = Warning(call.slice_along, call.slice_at)

\* The mesh point a row of a column of the returned field belongs to.
CellOf(r, k) == CHOOSE c \in 1..NC : ret.value.field_data[r][k] = FieldAt(OutLevels[k], c)

\* C8: every level yields the same rows as the first level, so the output
\* arrays, of shape (rows of the first level, number of levels), are filled
\* completely: no column is broadcast from a single row or fails to fit.
C8_SameRowsEveryLevel ==
    /\ SliceCall =>
          ~(ret.kind = "ValueError" /\ ret.msg.text = "could not broadcast input array")
    /\ ReachesFilter => ret.kind \in {"return", "NotImplementedError"}
    /\ SliceReturned =>
          LET out == ret.value
              n == Len(out.field_data)
          IN  /\ n >= 1
              /\ Len(out.coords_X) = n /\ Len(out.coords_Y) = n /\ Len(out.coords_Z) = n
              /\ \A r \in 1..n :
                    /\ Len(out.field_data[r]) = Len(OutLevels)
                    /\ Len(out.coords_X[r]) = Len(OutLevels)
                    /\ Len(out.coords_Y[r]) = Len(OutLevels)
                    /\ Len(out.coords_Z[r]) = Len(OutLevels)
              /\ \A k \in 1..Len(OutLevels) : \A r \in 1..n :
                    /\ \E c \in 1..NC : out.field_data[r][k] = FieldAt(OutLevels[k], c)
                    /\ CellOf(r, k) = CellOf(r, 1)
                    /\ r < n => CellOf(r, k) < CellOf(r + 1, k)
                    /\ out.coords_X[r][k] = Across[CellOf(r, 1)]
                    /\ out.coords_Y[r][k] = Along[CellOf(r, 1)]
                    /\ height_dataset = None => out.coords_Z[r][k] = OutLevels[k]

\* A returned slice of two levels with more than one row.
C8_Witness ==
    /\ SliceReturned
    /\ Len(OutLevels) = 2
    /\ Len(ret.value.field_data) >= 2
    /\ Len(ret.value.field_data) < NC
    /\ \A r \in 1..Len(ret.value.field_data) : CellOf(r, 2) = CellOf(r, 1)

(***************************************************************************)
(* Properties of extract_lfric_2D_data (under Spec2D)                      *)
(***************************************************************************)
Call2DMade == call.fn = "extract_lfric_2D_data"
CrossSections == {PyStr("xy"), PyStr("yz"), PyStr("xz")}

\* C10 as stated: a slice_name other than 'xy', 'yz', 'xz' raises the
\* validation error before anything is read or the coordinate helper is
\* called, and every slice_name that passes the check is one of the three.
C10_Original ==
    Call2DMade =>
        /\ call.slice_name \notin CrossSections =>
              (ret.kind = "ValueError" /\ events = <<>>)
        /\ ~(ret.kind = "ValueError" /\ events = <<>>) =>
              call.slice_name \in CrossSections

\* C10 as amended: a slice_name other than 'xy', 'yz', 'xz' and None (the
\* default) raises the validation error before any variable of the dataset is
\* read and before the coordinate helper is called; every slice_name that
\* passes the check is one of the three or None, and each of these passes.
C10_SliceNameChecked ==
    Call2DMade =>
        /\ call.slice_name \notin (CrossSections \cup {None}) =>
              (ret.kind = "ValueError" /\ events = <<>>)
        /\ call.slice_name \in (CrossSections \cup {None}) =>
              (~(ret.kind = "ValueError" /\ events = <<>>)
               /\ events[1] = LookupEvent(s_time))

\* A call with a slice_name that is no cross-section: rejected, nothing read.
C10_Witness ==
    /\ Call2DMade
    /\ call.slice_name = PyStr("zx")
    /\ \E n \in {s_time, s_time_instant} : n \in DOMAIN field_dataset.variables
    /\ ret.kind = "ValueError"
    /\ events = <<>>

\* The events of a call, by kind.
IsLookup(e) == e.ev = "lookup"
IsRead(e) == e.ev = "read"
IsHelperCall(e) == e.ev = "call"
Lookups == SelectSeq(events, IsLookup)
Reads == SelectSeq(events, IsRead)
HelperCalls == SelectSeq(events, IsHelperCall)

TimePresent(n) == n \in DOMAIN field_dataset.variables

\* The position, from 1, of the sample that time_idx selects among the NT
\* samples of a time variable.
TimePosition == Position(PyInt(call.time_idx), NT)

\* The axes of the target grid of the call: those passed, or those the
\* coordinate helper made.
GridAxes == IF call.plot_coords_1d = None THEN call.generated_coords_1d
            ELSE call.plot_coords_1d.v
Snapshot == ~TimePresent(s_time) /\ ~TimePresent(s_time_instant)
PassedCheck == Call2DMade /\ call.slice_name \in (CrossSections \cup {None})

\* C11: extract_lfric_2D_data uses 'time' when that variable exists, uses
\* 'time_instant' only when 'time' is absent, and takes time = 0 only when
\* both are absent; in that snapshot case the field is read without a time
\* index and its dimensions are taken as (level, cell) or (cell), otherwise
\* it is read at time_idx and they are taken as (time, level, cell) or
\* (time, cell).
C11_TimeVariableOrder ==
    PassedCheck =>
        LET dims == FieldDimsOf
            t == PyInt(call.time_idx)
            \* the position of the first dimension after the time dimension
            first == IF Snapshot THEN 1 ELSE 2
        IN  /\ TimePresent(s_time) =>
                /\ Lookups = <<LookupEvent(s_time)>>
                /\ ret.kind = "return" =>
                      ret.value.data_metadata.time =
                          field_dataset.variables[s_time].data[TimePosition]
            /\ (~TimePresent(s_time) /\ TimePresent(s_time_instant)) =>
                /\ Lookups = <<LookupEvent(s_time), LookupEvent(s_time_instant)>>
                /\ ret.kind = "return" =>
                      ret.value.data_metadata.time =
                          field_dataset.variables[s_time_instant].data[TimePosition]
            /\ Snapshot =>
                /\ Lookups = <<LookupEvent(s_time), LookupEvent(s_time_instant)>>
                /\ ret.kind = "return" => ret.value.data_metadata.time = 0
                /\ Len(dims) >= 1 => Len(HelperCalls) = 1
            /\ Len(HelperCalls) <= 1 /\ Len(Reads) <= Len(HelperCalls)
            /\ \A k \in 1..Len(HelperCalls) :
                  /\ Len(dims) >= first
                  /\ Len(dims) = first =>
                        /\ HelperCalls[k].vert_placement = None
                        /\ HelperCalls[k].hori_placement = Tail(dims[first])
                  /\ Len(dims) > first =>
                        /\ HelperCalls[k].vert_placement = PyStr(dims[first])
                        /\ HelperCalls[k].hori_placement = Tail(dims[first + 1])
            /\ \A k \in 1..Len(Reads) :
                  Reads[k].index =
                      IF Snapshot
                      THEN (IF Len(dims) = 1 THEN <<SliceAll>> ELSE <<SliceAll, SliceAll>>)
                      ELSE (IF Len(dims) = 2 THEN <<t, SliceAll>>
                            ELSE <<t, SliceAll, SliceAll>>)

\* A file holding both 'time' and 'time_instant': the time returned is that
\* of 'time', 'time_instant' is not looked up, the field is read at time_idx.
C11_Witness ==
    /\ PassedCheck
    /\ TimePresent(s_time) /\ TimePresent(s_time_instant)
    /\ FieldDimsOf = <<s_time, s_half_levels, s_nMesh2d_face>>
    /\ ret.kind = "return"
    /\ Lookups = <<LookupEvent(s_time)>>
    /\ ret.value.data_metadata.time = field_dataset.variables[s_time].data[TimePosition]
    /\ ret.value.data_metadata.time #
           field_dataset.variables[s_time_instant].data[TimePosition]
    /\ Len(Reads) = 1
    /\ Reads[1].index = <<PyInt(call.time_idx), SliceAll, SliceAll>>

\* A snapshot file: time 0 and the field read whole.
C11_WitnessSnapshot ==
    /\ PassedCheck
    /\ Snapshot
    /\ FieldDimsOf = <<s_half_levels, s_nMesh2d_face>>
    /\ ret.kind = "return"
    /\ ret.value.data_metadata.time = 0
    /\ Reads = <<[ev |-> "read", name |-> s_field, index |-> <<SliceAll, SliceAll>>]>>

\* time_idx = -1: the time and the field of the last sample, with the
\* labels, limits and ticks that the coordinate helper returned.
C11_WitnessFromEnd ==
    /\ PassedCheck
    /\ call.time_idx = -1
    /\ TimePresent(s_time)
    /\ FieldDimsOf = <<s_time, s_half_levels, s_nMesh2d_face>>
    /\ ret.kind = "return"
    /\ ret.value.data_metadata.time = field_dataset.variables[s_time].data[NT]
    /\ DOMAIN ret.value.data_metadata =
          {"time", "slice_label", "coord_labels", "coord_lims", "coord_ticks"}
    /\ Reads[1].index = <<PyInt(-1), SliceAll, SliceAll>>

\* The call returned an 'xy' cross-section.
ReturnedXY == Call2DMade /\ call.slice_name = PyStr("xy") /\ ret.kind = "return"

\* The points of the mesh the field lives on.
DataPoints ==
    [c \in 1..NC |-> << field_dataset.variables[s_Mesh2d_face_x].data[c],
                        field_dataset.variables[s_Mesh2d_face_y].data[c] >>]

\* The values that were regridded: those of the field at the requested time
\* (none for a snapshot) and, for a field with levels, at level slice_idx.
SourceValues ==
    LET d == FieldVar.data
        at_time == IF Snapshot THEN d ELSE d[TimePosition]
        leveled == Len(FieldDimsOf) > (IF Snapshot THEN 1 ELSE 2)
    IN  IF leveled THEN at_time[Position(call.slice_idx, Len(at_time))] ELSE at_time

\* The number of dimensions of each of those values (0: a number): what the
\* time index, the level index and the mesh dimension leave of the field's.
TrailingDims ==
    Len(FieldDimsOf) - (IF Snapshot THEN 1 ELSE 2)
                     - (IF Len(FieldDimsOf) > (IF Snapshot THEN 1 ELSE 2) THEN 1 ELSE 0)

\* The components of such a value, and the number that is component e.
Components(v) == IF TrailingDims > 0 THEN 1..Len(v) ELSE {1}
NumberOf(v, e) == IF TrailingDims > 0 THEN v[e] ELSE v

\* q lies in the convex hull of the mesh points.
InHull(q) ==
    \E i, j, k \in 1..NC :
        /\ Orient(DataPoints[i], DataPoints[j], DataPoints[k]) # 0
        /\ Contains(DataPoints, <<i, j, k>>, q)

\* v is the linear interpolation at q of the source values.
IsLinearValue(v, q, e) ==
    \E tri \in Delaunay(DataPoints) : \E t \in tri :
        LET w == Weights(DataPoints, t, q)
            det == Orient(DataPoints[t[1]], DataPoints[t[2]], DataPoints[t[3]])
        IN  /\ Contains(DataPoints, t, q)
            /\ v.den # 0
            /\ v.num * det =
                 v.den * (w[1] * NumberOf(SourceValues[t[1]], e)
                          + w[2] * NumberOf(SourceValues[t[2]], e)
                          + w[3] * NumberOf(SourceValues[t[3]], e))

\* v is the value at a mesh point closest to q.
IsNearestValue(v, q, e) ==
    \E c \in 1..NC :
        /\ \A c2 \in 1..NC : Dist2(DataPoints[c], q) <= Dist2(DataPoints[c2], q)
        /\ v.den = 1
        /\ v.num = NumberOf(SourceValues[c], e)

\* The field is the same number everywhere.
IsConstantField(c) == FieldVar.data = ConstArr(FieldVar.shape, c)

\* C12: for an 'xy' cross-section every target grid point holds the linear
\* interpolation value where that is defined (inside the hull of the mesh)
\* and the nearest-neighbour value where it is not, so no NaN is left; a field
\* that is the same constant everywhere is regridded to that constant at every
\* target point.
C12_LinearThenNearest ==
    ReturnedXY =>
        LET xs == GridAxes[1]
            ys == GridAxes[2]
            out == ret.value.field_data
        IN  /\ Len(out) = Len(ys)
            /\ \A j \in 1..Len(ys) :
                  /\ Len(out[j]) = Len(xs)
                  /\ \A i \in 1..Len(xs) : \A e \in Components(out[j][i]) :
                        LET q == <<xs[i], ys[j]>>
                            v == NumberOf(out[j][i], e)
                        IN  /\ v # NaN
                            /\ v.den > 0
                            /\ InHull(q) => IsLinearValue(v, q, e)
                            /\ ~InHull(q) => IsNearestValue(v, q, e)
                            /\ \A c \in FieldConstants :
                                  IsConstantField(c) => (v.num = c /\ v.den = 1)

\* A grid with a point inside the mesh that gets a value between those of
\* the mesh points and a point outside it that gets the nearest one.
C12_Witness ==
    /\ ReturnedXY
    /\ TrailingDims = 0
    /\ \E j, i \in 1..2 :
          LET q == <<GridAxes[1][i], GridAxes[2][j]>>
              v == ret.value.field_data[j][i]
          IN  /\ InHull(q)
              /\ IsLinearValue(v, q, 1)
              /\ v.den > 1
    /\ \E j, i \in 1..2 :
          LET q == <<GridAxes[1][i], GridAxes[2][j]>>
              v == ret.value.field_data[j][i]
          IN  /\ ~InHull(q)
              /\ IsNearestValue(v, q, 1)

\* A constant field regridded on a grid with points outside the mesh.
C12_WitnessConstant ==
    /\ ReturnedXY
    /\ \E c \in FieldConstants : IsConstantField(c)
    /\ TrailingDims = 0
    /\ \E j, i \in 1..2 :
          ~InHull(<<GridAxes[1][i], GridAxes[2][j]>>)
    /\ \A j, i \in 1..2 : \E c \in FieldConstants :
          ret.value.field_data[j][i] = [num |-> c, den |-> 1]

\* slice_idx = -1 on a field with levels, on the grid the coordinate helper
\* made: the last level is regridded. slice_idx = None on such a field: the
\* values no longer match the points of the mesh.
C12_WitnessFromEnd ==
    /\ ReturnedXY
    /\ call.slice_idx = PyInt(-1)
    /\ call.plot_coords_1d = None
    /\ FieldDimsOf = <<s_time, s_half_levels, s_nMesh2d_face>>
    /\ SourceValues = FieldVar.data[TimePosition][NL]
    /\ IsLinearValue(ret.value.field_data[1][1], <<GridAxes[1][1], GridAxes[2][1]>>, 1)

C12_WitnessNoLevel ==
    /\ Call2DMade
    /\ call.slice_name = PyStr("xy")
    /\ call.slice_idx = None
    /\ FieldDimsOf = <<s_time, s_half_levels, s_nMesh2d_face>>
    /\ ret.kind = "ValueError"
    /\ Len(Reads) = 1

(***************************************************************************)
(* Properties of convert_global_output (under SpecConv)                    *)
(***************************************************************************)
ConvCall == call.fn = "convert_global_output"
Modes == {PyStr("transport_stats"), PyStr("gungho_mass")}

\* The list of source directories of the call.
DirsOf(c) == IF c.source_dirs.tag = "list" THEN c.source_dirs.v ELSE <<c.source_dirs.s>>

\* run_params is given and is no mapping.
NotMapping(c) == c.run_params # None /\ c.run_params.tag # "dict"

\* The parameters of a call whose run_params is a mapping, in its order.
ParamsOf(c) == IF c.run_params = None THEN <<>> ELSE c.run_params.items

\* Parameter k is a list whose length is not that of the list source_dirs.
WrongLength(c, k) ==
    /\ ParamsOf(c)[k][2].tag = "list"
    /\ Len(ParamsOf(c)[k][2].v) # Len(c.source_dirs.v)

\* The checks of run_params find nothing.
ParamsPass(c) ==
    /\ ~NotMapping(c)
    /\ c.source_dirs.tag = "list" =>
          \A k \in 1..Len(ParamsOf(c)) :
              ParamsOf(c)[k][2].tag = "list" /\ ~WrongLength(c, k)

\* The step left every log unread and the output file as it was.
NothingTouched ==
    /\ events' = <<>>
    /\ output_file' = output_file
    /\ data_frames' = <<>>

\* C13: a run_params that is given and is no mapping is rejected with a
\* TypeError; with a list source_dirs a parameter whose list has another
\* length than source_dirs is rejected, with the length-mismatch ValueError
\* naming it when no parameter before it is rejected (the parameters are
\* checked in order and the first rejected one raises); in both cases no log
\* has been read and the output file has not been created or overwritten.
C13_ParamsChecked ==
    [][(call = NoCall /\ call'.fn = "convert_global_output") =>
          /\ NotMapping(call') => (ret'.kind = "TypeError" /\ NothingTouched)
          /\ (~NotMapping(call') /\ call'.source_dirs.tag = "list") =>
                \A k \in 1..Len(ParamsOf(call')) :
                    WrongLength(call', k) =>
                        /\ ret'.kind \in {"ValueError", "TypeError"}
                        /\ NothingTouched
                        /\ (\A j \in 1..(k - 1) :
                                ParamsOf(call')[j][2].tag = "list"
                                /\ ~WrongLength(call', j)) =>
                              /\ ret'.kind = "ValueError"
                              /\ ret'.msg.field = ParamsOf(call')[k][1]
                              /\ ret'.msg.count = Len(call'.source_dirs.v)
          /\ (ParamsPass(call') /\ call'.mode \in Modes) =>
                ~(ret'.kind \in {"ValueError", "TypeError"} /\ events' = <<>>)
      ]_vars

\* Two source directories with logs, an output file of an earlier run, and a
\* second parameter with one value: the length-mismatch error names it, the
\* logs are unread and the old file is still there.
C13_Witness ==
    /\ ConvCall
    /\ call.source_dirs = PyList(<<"A", "B">>)
    /\ \A d \in SourceDirs : logs.files[d] # None
    /\ call.mode \in Modes
    /\ ~NotMapping(call)
    /\ Len(ParamsOf(call)) = 2
    /\ WrongLength(call, 2)
    /\ ret.kind = "ValueError"
    /\ ret.msg.field = s_param_b
    /\ ret.msg.count = 2
    /\ events = <<>>
    /\ output_file = OldFile

\* Parameters that pass the checks, one string for every source directory:
\* the logs are read and the file is created with a variable of strings, but
\* the assignment of the list to it is refused and nothing is written to it.
C13_WitnessStringParams ==
    /\ ConvCall
    /\ call.source_dirs = PyList(<<"A", "B">>)
    /\ call.run_params = PyDict(<< <<s_param_a, PyList(<<PyStr(<<"x">>), PyStr(<<"y">>)>>)>> >>)
    /\ ret.kind = "IndexError"
    /\ <<s_param_a>> \in DOMAIN output_file.vars
    /\ output_file.vars[<<s_param_a>>].dtype = "str"
    /\ output_file.vars[<<s_param_a>>].cells = <<>>

\* Parameters that are floats, one for every source directory: the
\* conversion completes and the file holds them in a variable of floats.
C13_WitnessFloatParams ==
    /\ ConvCall
    /\ call.source_dirs = PyList(<<"A", "B">>)
    /\ \E vs \in {<<PyFloat(Frac(1, 2)), PyFloat(Frac(1, 1))>>} :
          call.run_params = PyDict(<< <<s_param_a, PyList(vs)>> >>)
    /\ ret.kind = "return"
    /\ <<s_param_a>> \in DOMAIN output_file.vars
    /\ output_file.vars[<<s_param_a>>].dtype = "float"
    /\ output_file.vars[<<s_param_a>>].cells[<<1>>] = Frac(1, 1)

\* C14: a mode other than 'transport_stats' and 'gungho_mass' makes the
\* call fail before any log is read and before global_output.nc is created
\* or overwritten; the error is the configuration ValueError whenever the
\* checks of run_params, which come first, pass.
C14_ModeChecked ==
    [][(call = NoCall /\ call'.fn = "convert_global_output"
        /\ call'.mode \notin Modes) =>
          /\ IsError(ret')
          /\ NothingTouched
          /\ ParamsPass(call') =>
                /\ ret'.kind = "ValueError"
                /\ ret'.msg.text = "Converter mode should be \"transport_stats\" or \"gungho\""
      ]_vars

\* A call with mode 'gungho' on directories with logs and an old output
\* file: the configuration error, the logs unread, the old file still there.
C14_Witness ==
    /\ ConvCall
    /\ call.mode = PyStr("gungho")
    /\ ParamsPass(call)
    /\ DirsOf(call) # <<>>
    /\ \A k \in 1..Len(DirsOf(call)) : logs.files[DirsOf(call)[k]] # None
    /\ ret.kind = "ValueError"
    /\ events = <<>>
    /\ output_file = OldFile

GunghoCall == ConvCall /\ call.mode = PyStr("gungho_mass")
TransportCall == ConvCall /\ call.mode = PyStr("transport_stats")

\* The log that table i of data_frames was made from.
RawRows(i) == logs.files[DirsOf(call)[i]].rows

\* The sum of the masses of the first n rows of a table that lie at a
\* (time, stage).
RECURSIVE MassSum(_, _, _, _)
MassSum(df, n, time, stage) ==
    IF n = 0 THEN 0
    ELSE MassSum(df, n - 1, time, stage)
         + (IF df[n].time = time /\ df[n].timestage = stage THEN df[n].mass ELSE 0)

\* C15: in gungho_mass mode the rows of species 'total' are appended after
\* the rows of the log: exactly one for every (time, stage) of the re-labelled
\* table, and none other, its mass the sum of the masses of all the
\* per-species rows of that (time, stage).
C15_TotalIsSum ==
    GunghoCall =>
        \A i \in 1..Len(data_frames) :
            LET df == data_frames[i]
                n == Len(RawRows(i))
                totals == {k \in 1..Len(df) : df[k].species = s_total}
                pairs == {<<df[k].time, df[k].timestage>> : k \in 1..n}
            IN  /\ totals = (n + 1)..Len(df)
                /\ \A p \in pairs :
                      Cardinality({k \in totals : <<df[k].time, df[k].timestage>> = p}) = 1
                /\ \A k \in totals :
                      /\ <<df[k].time, df[k].timestage>> \in pairs
                      /\ df[k].mass = MassSum(df, n, df[k].time, df[k].timestage)

\* Three species logged as 1, 2 and 3 at one (time, stage): a total of 6.
C15_Witness ==
    /\ GunghoCall
    /\ \E i \in 1..Len(data_frames) :
          LET df == data_frames[i]
          IN  \E a, b, c, t \in 1..Len(df) :
                /\ df[a].mass = 1 /\ df[b].mass = 2 /\ df[c].mass = 3
                /\ Cardinality({df[a].species, df[b].species, df[c].species}) = 3
                /\ df[t].species = s_total
                /\ df[t].mass = 6
                /\ \A k \in {a, b, c} :
                      df[k].time = df[t].time /\ df[k].timestage = df[t].timestage
                /\ Cardinality({k \in 1..Len(RawRows(i)) :
                        df[k].time = df[t].time /\ df[k].timestage = df[t].timestage}) = 3

\* C16: in gungho_mass mode the species label of a row is the logged species
\* code without its last character, whatever the length of the code ('10,'
\* gives '10'), so two different codes never get the same label.
C16_SpeciesLabel ==
    GunghoCall =>
        \A i \in 1..Len(data_frames) :
            LET df == data_frames[i]
                raw == RawRows(i)
            IN  /\ \A k \in 1..Len(raw) :
                      df[k].species =
                          SubSeq(raw[k].species_str, 1, Len(raw[k].species_str) - 1)
                /\ \A k, j \in 1..Len(raw) :
                      raw[k].species_str # raw[j].species_str =>
                          df[k].species # df[j].species

\* C17: in gungho_mass mode every row logged at 'Before_timestep' is moved
\* to time 0 of 'After_timestep', no row of the table keeps the stage
\* 'Before_timestep', and the rows at (time 0, 'After_timestep'), which the
\* total of that time and stage sums, hold every species code at most once.
C17_NoDoubleCount ==
    GunghoCall =>
        \A i \in 1..Len(data_frames) :
            LET df == data_frames[i]
                raw == RawRows(i)
                AtStart(k) == df[k].time = 0 /\ df[k].timestage = s_After_timestep
            IN  /\ \A k \in 1..Len(df) : df[k].timestage # s_Before_timestep
                /\ \A k \in 1..Len(raw) :
                      (raw[k].timestage1 = s_Before /\ raw[k].timestage2 = s_timestep)
                          => AtStart(k)
                /\ \A k, j \in 1..Len(raw) :
                      (k # j /\ AtStart(k) /\ AtStart(j)) =>
                          raw[k].species_str # raw[j].species_str

\* The call created the output file.
FileCreated == ConvCall /\ events # <<>> /\ events[Len(events)].ev = "create"
Converted == FileCreated /\ ret.kind = "return"

\* The seven names of error metrics.
SevenErrors ==
    { s_Min_initial, s_Max_initial, s_L2_initial, s_L2_final,
      s_Rel_L2_error, s_Dissipation, s_Dispersion }

\* The per-measure arrays of the output file, all and by category.
MeasureArrays == {p \in DOMAIN output_file.vars : Len(p) = 3}
ArraysOf(category) == {p \in MeasureArrays : p[2] = category}

\* The time slots of run i (from 1) that were written in array p.
Slots(i, p) ==
    {idx[2] : idx \in {x \in DOMAIN output_file.vars[p].cells : x[1] = i - 1}}

\* C18: in transport_stats mode every row of a converted log is written to
\* the array of its measure in exactly one category of its variable: 'errors'
\* when the measure is one of the seven error metrics, 'global_quantities'
\* otherwise; no array of a measure exists in the other category.
C18_OneCategory ==
    /\ (TransportCall /\ FileCreated) =>
          \A p \in MeasureArrays :
              /\ p[2] \in {s_errors, s_global_quantities}
              /\ p[2] = s_errors <=> p[3] \in SevenErrors
    /\ (TransportCall /\ Converted) =>
          \A i \in 1..Len(data_frames) : \A k \in 1..Len(data_frames[i]) :
              LET row == data_frames[i][k]
                  is_error == row.measure_name \in SevenErrors
                  here == <<row.variable,
                            IF is_error THEN s_errors ELSE s_global_quantities,
                            row.measure_name>>
                  there == <<row.variable,
                             IF is_error THEN s_global_quantities ELSE s_errors,
                             row.measure_name>>
              IN  /\ here \in MeasureArrays
                  /\ there \notin MeasureArrays
                  /\ \E idx \in DOMAIN output_file.vars[here].cells :
                        /\ idx[1] = i - 1
                        /\ output_file.vars[here].cells[idx] = row.measure_value

\* Two converted runs: 'L2-initial' under 'errors', 'some_custom_metric'
\* under 'global_quantities', both written for the second run.
C18_Witness ==
    /\ TransportCall
    /\ Converted
    /\ Len(data_frames) = 2
    /\ <<s_field, s_errors, s_L2_initial>> \in MeasureArrays
    /\ <<s_field, s_global_quantities, s_some_custom_metric>> \in MeasureArrays
    /\ Slots(2, <<s_field, s_errors, s_L2_initial>>) # {}
    /\ Slots(2, <<s_field, s_global_quantities, s_some_custom_metric>>) # {}

\* The rows of run i that belong to the 'global_quantities' array p.
Selection(i, p) ==
    IF call.mode = PyStr("gungho_mass")
    THEN SelectSeq(data_frames[i], LAMBDA r : r.species = p[1] /\ r.timestage = p[3])
    ELSE SelectSeq(data_frames[i],
                   LAMBDA r : r.variable = p[1] /\ r.measure_name = p[3])
ValueOfRow(r) == IF call.mode = PyStr("gungho_mass") THEN r.mass ELSE r.measure_value

\* The distinct times of the time axis of run i.
RunTimes(i) ==
    IF call.mode = PyStr("gungho_mass")
    THEN {data_frames[i][k].time : k \in 1..Len(data_frames[i])}
    ELSE {data_frames[i][k].time :
            k \in {j \in 1..Len(data_frames[i]) :
                      data_frames[i][j].measure_name \notin SevenErrors}}

\* No two rows of a series have the same time.
DistinctTimes(sel) == \A k, j \in 1..Len(sel) : k # j => sel[k].time # sel[j].time

\* C19 as stated: every run's series is right-aligned in the shared time
\* axis: its values are in the last slots of the axis and the slots before
\* them hold the fill value (for series of length 5 and 3: the last 3 of 5).
C19_Original ==
    Converted =>
        \A i \in 1..Len(data_frames) : \A p \in ArraysOf(s_global_quantities) :
            LET sel == Selection(i, p)
                length == output_file.dims[s_time]
            IN  DistinctTimes(sel) => Slots(i, p) = (length - Len(sel))..(length - 1)

\* C19 as amended: a series is right-aligned within the time axis of its own
\* run: its values are, in time order, in the last slots of the first
\* num_times slots, num_times the number of distinct times of that run; the
\* slots before them and the slots from num_times on, up to the length of the
\* shared time axis, hold the fill value. Runs with time series of length 5
\* and 3 both start at slot 0: the shorter has the fill value in the last 2.
C19_AlignedWithinRun ==
    Converted =>
        \A i \in 1..Len(data_frames) : \A p \in ArraysOf(s_global_quantities) :
            LET sel == Selection(i, p)
                num_times == Cardinality(RunTimes(i))
                first == num_times - Len(sel)
                cells == output_file.vars[p].cells
            IN  DistinctTimes(sel) =>
                    /\ Slots(i, p) = first..(num_times - 1)
                    /\ \A k \in 1..Len(sel) :
                          cells[<<i - 1,
                                  first + Cardinality({j \in 1..Len(sel) :
                                                         sel[j].time < sel[k].time})>>]
                              = ValueOfRow(sel[k])

\* Runs with time series of length 5 and 3: the values of the shorter run
\* are in slots 0..2 of the 5 slots, slots 3 and 4 were never written.
C19_Witness ==
    /\ Converted
    /\ Len(data_frames) = 2
    /\ Cardinality(RunTimes(1)) = 5
    /\ Cardinality(RunTimes(2)) = 3
    /\ output_file.dims[s_time] = 5
    /\ \E p \in ArraysOf(s_global_quantities) :
          /\ Len(Selection(2, p)) = 3
          /\ Slots(2, p) = 0..2
          /\ Slots(1, p) = 0..4

\* C20 as stated: every per-measure array, under 'errors' as under
\* 'global_quantities', is a float array on ('run_id', 'time'); the file has
\* the dimensions run_id and time, and error_time in transport_stats mode only.
C20_Original ==
    /\ FileCreated =>
          \A p \in MeasureArrays :
              /\ output_file.vars[p].dtype = "float"
              /\ output_file.vars[p].dims = <<s_run_id, s_time>>
    /\ Converted =>
          DOMAIN output_file.dims =
              {s_run_id, s_time} \cup (IF TransportCall THEN {s_error_time} ELSE {})

\* C20 as amended: every per-measure array under 'global_quantities' is a
\* float array on ('run_id', 'time') and every per-measure array under
\* 'errors' a float array on ('run_id', 'error_time'); gungho_mass mode
\* creates no array under 'errors'; the file has the dimensions run_id and
\* time, and error_time in transport_stats mode only.
C20_ArrayDimensions ==
    /\ FileCreated =>
          /\ \A p \in MeasureArrays :
                /\ output_file.vars[p].dtype = "float"
                /\ p[2] \in {s_errors, s_global_quantities}
                /\ p[2] = s_global_quantities =>
                      output_file.vars[p].dims = <<s_run_id, s_time>>
                /\ p[2] = s_errors =>
                      output_file.vars[p].dims = <<s_run_id, s_error_time>>
          /\ GunghoCall => ArraysOf(s_errors) = {}
    /\ Converted =>
          DOMAIN output_file.dims =
              {s_run_id, s_time} \cup (IF TransportCall THEN {s_error_time} ELSE {})

\* A converted transport_stats log with an array under 'errors' and one
\* under 'global_quantities'.
C20_Witness ==
    /\ TransportCall
    /\ Converted
    /\ \E p \in ArraysOf(s_errors) :
          output_file.vars[p].dims = <<s_run_id, s_error_time>>
    /\ \E p \in ArraysOf(s_global_quantities) :
          output_file.vars[p].dims = <<s_run_id, s_time>>
    /\ s_error_time \in DOMAIN output_file.dims

\* The rows of the table of run i (from 1) that have no counterpart in the
\* table of the first run: in gungho_mass mode a species or a stage the first
\* table does not have, in transport_stats mode a measure of a variable that
\* the first table does not have for that variable.
InFirstTable(r) ==
    LET first == data_frames[1]
    IN  IF call.mode = PyStr("gungho_mass")
        THEN /\ \E k \in 1..Len(first) : first[k].species = r.species
             /\ \E k \in 1..Len(first) : first[k].timestage = r.timestage
        ELSE \E k \in 1..Len(first) :
                first[k].variable = r.variable /\ first[k].measure_name = r.measure_name
NewRows(i) == SelectSeq(data_frames[i], LAMBDA r : ~InFirstTable(r))

\* The array a row would be stored in.
ArrayOf(r) ==
    IF call.mode = PyStr("gungho_mass")
    THEN <<r.species, s_global_quantities, r.timestage>>
    ELSE <<r.variable,
           IF r.measure_name \in SevenErrors THEN s_errors ELSE s_global_quantities,
           r.measure_name>>

\* A lookup of a group or an array that the output file does not have failed.
MissingInFile ==
    /\ ret.kind = "IndexError"
    /\ ret.msg.text = "not found"

\* The conversion stopped before it stored anything of the tables of the
\* runs: the variable 'error_time', the first thing the loop over the runs
\* creates, is not in the file.
StoppedBeforeRuns == <<s_error_time>> \notin DOMAIN output_file.vars

\* The names of the variables the routine creates in the root group.
RootNames == {s_run_id, s_time, s_error_time}

\* The parts of C21 that both statements share: every group is of a variable
\* or species of the first table, every per-measure array of a measure of
\* the first table, no array exists for a row of a later run that has no
\* counterpart in the first table, and gungho_mass mode never fails on a
\* missing group or array (such rows are left out).
FirstRunFixes ==
    /\ \A g \in output_file.groups :
          g # <<>> =>
              \E k \in 1..Len(data_frames[1]) :
                  g[1] = (IF GunghoCall THEN data_frames[1][k].species
                          ELSE data_frames[1][k].variable)
    /\ \A p \in MeasureArrays :
          \E k \in 1..Len(data_frames[1]) :
              /\ InFirstTable(data_frames[1][k])
              /\ IF GunghoCall
                 THEN /\ p[1] = data_frames[1][k].species
                      /\ \E j \in 1..Len(data_frames[1]) :
                            p[3] = data_frames[1][j].timestage
                 ELSE p = ArrayOf(data_frames[1][k])
    /\ \A i \in 2..Len(data_frames) : \A k \in 1..Len(NewRows(i)) :
          ArrayOf(NewRows(i)[k]) \notin MeasureArrays
    /\ GunghoCall => ~MissingInFile

\* A later run of a transport_stats call has a row without counterpart in
\* the first table.
LaterRunHasNewRows ==
    TransportCall /\ \E i \in 2..Len(data_frames) : NewRows(i) # <<>>

C21_WitnessMeasure ==
    /\ TransportCall
    /\ FileCreated
    /\ Len(data_frames) = 2
    /\ NewRows(2) # <<>>
    /\ \A k \in 1..Len(NewRows(2)) :
          \E j \in 1..Len(data_frames[1]) :
              data_frames[1][j].variable = NewRows(2)[k].variable
    /\ MissingInFile

\* transport_stats: the second run has a row without counterpart, and the
\* conversion failed while storing run_params, on a name in use.
C21_WitnessNameInUse ==
    /\ LaterRunHasNewRows
    /\ FileCreated
    /\ StoppedBeforeRuns
    /\ ParamsOf(call) # <<>>
    /\ ret.kind = "RuntimeError"

\* transport_stats: the same, failed on values the file does not take.
C21_WitnessValues ==
    /\ LaterRunHasNewRows
    /\ FileCreated
    /\ StoppedBeforeRuns
    /\ ret.kind \in {"TypeError", "ValueError"}

\* transport_stats: the first table has a variable named 'time', the second
\* run other rows; the conversion failed creating the group of that name.
C21_WitnessGroupName ==
    /\ LaterRunHasNewRows
    /\ FileCreated
    /\ ParamsOf(call) = <<>>
    /\ ret.kind = "RuntimeError"
    /\ output_file.groups = {<<>>}

\* gungho_mass: the second run logs a species and a stage the first run does
\* not have; the conversion completed without them.
C21_WitnessGungho ==
    /\ GunghoCall
    /\ Converted
    /\ Len(data_frames) = 2
    /\ \E k \in 1..Len(NewRows(2)) :
          \A j \in 1..Len(data_frames[1]) :
              data_frames[1][j].species # NewRows(2)[k].species
    /\ Slots(2, <<<<"1">>, s_global_quantities, s_After_timestep>>) # {}

\* gungho_mass: the second run logs a stage the first run does not have.
C21_WitnessStage ==
    /\ GunghoCall
    /\ Converted
    /\ Len(data_frames) = 2
    /\ \E k \in 1..Len(NewRows(2)) :
          \A j \in 1..Len(data_frames[1]) :
              data_frames[1][j].timestage # NewRows(2)[k].timestage

\* The log of the k-th source directory of call c cannot be read (there is
\* none) or cannot be transformed (gungho_mass: a mass that is no number).
Unreadable(c, k) == logs.files[DirsOf(c)[k]] = None
Untransformable(c, k) ==
    /\ ~Unreadable(c, k)
    /\ c.mode = PyStr("gungho_mass")
    /\ \E j \in 1..Len(logs.files[DirsOf(c)[k]].rows) :
          "mass" \notin DOMAIN logs.files[DirsOf(c)[k]].rows[j]
FailsAt(c, k) == Unreadable(c, k) \/ Untransformable(c, k)

\* The reads of the logs of the first n source directories of c, in order.
ReadsOf(c, n) == [k \in 1..n |-> [ev |-> "read_csv", name |-> DirsOf(c)[k]]]

\* The values written for run i (from 1) in the array p of a file.
RunValues(file, i, p) ==
    {file.vars[p].cells[idx] :
        idx \in {x \in DOMAIN file.vars[p].cells : x[1] = i - 1}}

\* The values the log of the i-th source directory of c has for array p:
\* in transport_stats mode the values of the measure of the variable, in
\* gungho_mass mode the masses of the log (the rows of species 'total' are
\* derived, their arrays are left aside).
LogValues(c, i, p) ==
    LET rows == logs.files[DirsOf(c)[i]].rows
    IN  IF c.mode = PyStr("gungho_mass")
        THEN {rows[k].mass : k \in 1..Len(rows)}
        ELSE {rows[k].measure_value :
                k \in {j \in 1..Len(rows) :
                          rows[j].variable = p[1] /\ rows[j].measure_name = p[3]}}

\* C22: a call that passes the checks reads the logs in the order of
\* source_dirs and creates global_output.nc after the last of them has been
\* read and transformed. When the log of a source directory cannot be read
\* or transformed the call raises that error at the first such directory,
\* having read the logs up to it and no other, and the output file is neither
\* created nor overwritten. In a file that was created, run index i holds
\* the data of the i-th source directory: run_id is 0, 1, ... and every
\* value of row i of a per-measure array is a value of that directory's log.
C22_CreatedAfterAllRead ==
    [][ (call'.fn = "convert_global_output" /\ ParamsPass(call') /\ call'.mode \in Modes) =>
          LET c == call'
              n == Len(DirsOf(c))
              failing == {k \in 1..n : FailsAt(c, k)}
          IN  IF failing # {}
              THEN LET k == CHOOSE k \in failing : \A j \in failing : k <= j
                   IN  /\ ret'.kind = (IF Unreadable(c, k) THEN "FileNotFoundError"
                                       ELSE "ValueError")
                       /\ events' = ReadsOf(c, k)
                       /\ Len(data_frames') = k - 1
                       /\ output_file' = output_file
              ELSE /\ events' = Append(ReadsOf(c, n),
                                       [ev |-> "create", name |-> "global_output.nc"])
                   /\ Len(data_frames') = n
                   /\ output_file' # None
                   /\ output_file' # output_file
                   /\ ret'.kind = "return" =>
                         /\ \A i \in 1..n :
                               output_file'.vars[<<s_run_id>>].cells[<<i - 1>>] = i - 1
                         /\ \A i \in 1..n :
                               \A p \in {q \in DOMAIN output_file'.vars :
                                            Len(q) = 3 /\ q[1] # s_total} :
                                   RunValues(output_file', i, p) \subseteq LogValues(c, i, p)
      ]_vars

\* The log of the second of two source directories cannot be transformed:
\* both logs were read, the call failed and a file left by an earlier
\* conversion is as it was.
C22_Witness ==
    /\ GunghoCall
    /\ Len(DirsOf(call)) = 2
    /\ ~FailsAt(call, 1)
    /\ Untransformable(call, 2)
    /\ ret.kind = "ValueError"
    /\ events = ReadsOf(call, 2)
    /\ output_file = OldFile

\* The log of the first of two source directories is missing.
C22_WitnessUnreadable ==
    /\ ConvCall
    /\ Len(DirsOf(call)) = 2
    /\ Unreadable(call, 1)
    /\ ret.kind = "FileNotFoundError"
    /\ events = ReadsOf(call, 1)
    /\ output_file = OldFile

\* Two logs of different lengths converted in the order B, A: the longer
\* series is in the row of the run whose directory has the longer log.
C22_WitnessOrder ==
    /\ TransportCall
    /\ Converted
    /\ DirsOf(call) = <<"B", "A">>
    /\ \E p \in ArraysOf(s_global_quantities) :
          /\ Cardinality(Slots(1, p)) = Len(Selection(1, p))
          /\ Cardinality(Slots(1, p)) # Cardinality(Slots(2, p))
          /\ Slots(2, p) # {}

=============================================================================
